---------------------------- MODULE Spec2Model ----------------------------
(***************************************************************************)
(* jqMVC data-access layer: the filter-to-SQL compiler of af.DbQuery       *)
(* (src/src/class.db_query.js).                                            *)
(*                                                                         *)
(* JavaScript strings are modelled as sequences of one-character strings,  *)
(* so that trim, toUpperCase, split, join and the count of the placeholder *)
(* character are computed on the characters.  A JavaScript value is the    *)
(* record [k |-> kind, v |-> payload].                                     *)
(***************************************************************************)
EXTENDS Integers, Sequences, FiniteSets, TLC

\* ------------------------------------------------------------------------
\* Bounds of the enumeration of inputs
\* ------------------------------------------------------------------------
\* number of entries of a canonical filter specification
MaxEntries == 2
\* number of prepare* calls made with one search object
MaxCalls == 2

\* ------------------------------------------------------------------------
\* JavaScript values
\* ------------------------------------------------------------------------
Str(s) == [k |-> "str", v |-> s]
Num(n) == [k |-> "num", v |-> n]
Bool(b) == [k |-> "bool", v |-> b]
Null == [k |-> "null", v |-> 0]
Undef == [k |-> "undef", v |-> 0]
\* a Date object; v is <<year, month, day>> (midnight UTC)
Date(y, m, d) == [k |-> "date", v |-> <<y, m, d>>]
Arr(s) == [k |-> "arr", v |-> s]
\* a plain object {}
Obj == [k |-> "obj", v |-> 0]

\* ------------------------------------------------------------------------
\* String primitives of the language
\* ------------------------------------------------------------------------
LowerChars == <<"a", "b", "c", "d", "e", "f", "g", "h", "i", "j", "k", "l", "m", "n", "o", "p", "q", "r", "s", "t", "u", "v", "w", "x", "y", "z">>
UpperChars == <<"A", "B", "C", "D", "E", "F", "G", "H", "I", "J", "K", "L", "M", "N", "O", "P", "Q", "R", "S", "T", "U", "V", "W", "X", "Y", "Z">>
DigitChars == <<"0", "1", "2", "3", "4", "5", "6", "7", "8", "9">>

IsSpaceChar(c) == c \in {" ", "\t", "\n"}

toUpperCaseChar(c) ==
    IF \E i \in 1..Len(LowerChars) : LowerChars[i] = c
    THEN UpperChars[CHOOSE i \in 1..Len(LowerChars) : LowerChars[i] = c]
    ELSE c

\* String.prototype.toUpperCase
toUpperCase(s) == [i \in 1..Len(s) |-> toUpperCaseChar(s[i])]

toLowerCaseChar(c) ==
    IF \E i \in 1..Len(UpperChars) : UpperChars[i] = c
    THEN LowerChars[CHOOSE i \in 1..Len(UpperChars) : UpperChars[i] = c]
    ELSE c

\* String.prototype.toLowerCase
toLowerCase(s) == [i \in 1..Len(s) |-> toLowerCaseChar(s[i])]

\* index of the first character that is not white space (Len+1 when none)
FirstNonSpace(s) ==
    IF \E i \in 1..Len(s) : ~IsSpaceChar(s[i])
    THEN CHOOSE i \in 1..Len(s) :
             /\ ~IsSpaceChar(s[i])
             /\ \A j \in 1..(i - 1) : IsSpaceChar(s[j])
    ELSE Len(s) + 1

\* index of the last character that is not white space (0 when none)
LastNonSpace(s) ==
    IF \E i \in 1..Len(s) : ~IsSpaceChar(s[i])
    THEN CHOOSE i \in 1..Len(s) :
             /\ ~IsSpaceChar(s[i])
             /\ \A j \in (i + 1)..Len(s) : IsSpaceChar(s[j])
    ELSE 0

trimLeft(s) == SubSeq(s, FirstNonSpace(s), Len(s))
trimRight(s) == SubSeq(s, 1, LastNonSpace(s))

\* String.prototype.trim
trim(s) == SubSeq(s, FirstNonSpace(s), LastNonSpace(s))

\* decimal digits of a natural number
RECURSIVE NatToString(_)
NatToString(n) ==
    IF n < 10 THEN <<DigitChars[n + 1]>>
    ELSE NatToString(n \div 10) \o <<DigitChars[(n % 10) + 1]>>

\* Number.prototype.toString for integers
NumberToString(n) == IF n < 0 THEN <<"-">> \o NatToString(-n) ELSE NatToString(n)

Pad2(n) == IF n < 10 THEN <<"0">> \o NatToString(n) ELSE NatToString(n)

\* Date.prototype.toISOString for a date at midnight UTC
toISOString(d) ==
    NatToString(d[1]) \o <<"-">> \o Pad2(d[2]) \o <<"-">> \o Pad2(d[3]) \o <<"T", "0", "0", ":", "0", "0", ":", "0", "0", ".", "0", "0", "0", "Z">>

\* s.split(/\s*,\s*/): the pieces between the commas, the white space around
\* each comma belonging to the separator
RECURSIVE split(_)
split(s) ==
    IF \E i \in 1..Len(s) : s[i] = ","
    THEN LET i == CHOOSE j \in 1..Len(s) :
                      s[j] = "," /\ \A h \in 1..(j - 1) : s[h] # ","
         IN  <<trimRight(SubSeq(s, 1, i - 1))>>
                 \o split(trimLeft(SubSeq(s, i + 1, Len(s))))
    ELSE <<s>>

\* concatenation of a sequence of strings with a separator between them
RECURSIVE JoinStrings(_, _)
JoinStrings(parts, sep) ==
    IF Len(parts) = 0 THEN <<>>
    ELSE IF Len(parts) = 1 THEN parts[1]
    ELSE parts[1] \o sep \o JoinStrings(Tail(parts), sep)

\* a string Number() converts to a finite number and parseFloat() parses:
\* an optional sign and decimal digits, white space around them ignored
IsNumericString(s) ==
    LET t == trim(s)
        u == IF Len(t) > 0 /\ t[1] \in {"-", "+"} THEN Tail(t) ELSE t
    IN  /\ Len(u) > 0
        /\ \A i \in 1..Len(u) : \E j \in 1..Len(DigitChars) : DigitChars[j] = u[i]


\* ------------------------------------------------------------------------
\* Conversions and tests of the language on values
\* ------------------------------------------------------------------------
\* ToBoolean
Truthy(x) ==
    CASE x.k = "str" -> Len(x.v) > 0
      [] x.k = "num" -> x.v # 0
      [] x.k = "bool" -> x.v
      [] x.k \in {"null", "undef"} -> FALSE
      [] OTHER -> TRUE

RECURSIVE JsToString(_)
RECURSIVE join(_, _)
\* ToString: what string concatenation and Array.prototype.join make of a value
JsToString(x) ==
    CASE x.k = "str" -> x.v
      [] x.k = "num" -> NumberToString(x.v)
      [] x.k = "bool" -> IF x.v THEN <<"t", "r", "u", "e">> ELSE <<"f", "a", "l", "s", "e">>
      [] x.k = "null" -> <<"n", "u", "l", "l">>
      [] x.k = "undef" -> <<"u", "n", "d", "e", "f", "i", "n", "e", "d">>
      [] x.k = "date" -> <<"D", "a", "t", "e", " ">> \o toISOString(x.v)
      [] x.k = "arr" -> join(x.v, <<",">>)
      [] x.k = "clause" -> x.v.text
      [] OTHER -> <<"[", "o", "b", "j", "e", "c", "t", " ", "O", "b", "j", "e", "c", "t", "]">>

\* Array.prototype.join: null and undefined elements give the empty string
join(a, sep) ==
    IF Len(a) = 0 THEN <<>>
    ELSE LET head == IF a[1].k \in {"null", "undef"} THEN <<>> ELSE JsToString(a[1])
         IN  IF Len(a) = 1 THEN head ELSE head \o sep \o join(Tail(a), sep)

\* $.typeOf of the application framework: the class name of a value
typeOf(x) ==
    CASE x.k = "str" -> "String"
      [] x.k = "num" -> "Number"
      [] x.k = "bool" -> "Boolean"
      [] x.k = "null" -> "null"
      [] x.k = "undef" -> "undefined"
      [] x.k = "date" -> "Date"
      [] x.k = "arr" -> "Array"
      [] OTHER -> "Object"

\* $.isArray of the application framework
isArray(x) == x.k = "arr"

isString(test) == test.k = "str"

isNumeric(test) ==
    IF test.k = "num" THEN TRUE ELSE IsNumericString(JsToString(test))

\* a[i] of a JavaScript array (0-based), undefined outside it
At(a, i) == IF i + 1 \in 1..Len(a) THEN a[i + 1] ELSE Undef

\* a[i] = x of a JavaScript array (0-based); the array grows as needed
SetAt(a, i, x) ==
    [j \in 1..(IF i + 1 > Len(a) THEN i + 1 ELSE Len(a)) |->
        IF j = i + 1 THEN x ELSE IF j <= Len(a) THEN a[j] ELSE Undef]

\* a.length = n of a JavaScript array
SetLength(a, n) == [j \in 1..n |-> IF j <= Len(a) THEN a[j] ELSE Undef]

\* ------------------------------------------------------------------------
\* $.SqlClause
\* ------------------------------------------------------------------------
\* SqlClause.set: [ok, text]
SqlClause_set(sqlClause) ==
    IF sqlClause.k # "str" THEN [ok |-> FALSE, text |-> <<>>]
    ELSE [ok |-> TRUE, text |-> sqlClause.v]

\* SqlClause.values used as setter: the new value sequence
SqlClause_values(old, newValues) == IF isArray(newValues) THEN newValues.v ELSE old

\* new $.SqlClause(sqlClause, sqlValues): [ok, obj]
SqlClause(sqlClause, sqlValues) ==
    LET s == SqlClause_set(IF Truthy(sqlClause) THEN sqlClause ELSE Str(<<>>))
        vals == SqlClause_values(<<>>, IF Truthy(sqlValues) THEN sqlValues ELSE Arr(<<>>))
    IN  [ok |-> s.ok,
         obj |-> [k |-> "clause", v |-> [text |-> s.text, values |-> vals]]]

SqlClause_get(c) == c.v.text
SqlClause_hasValues(c) == Len(c.v.values) > 0

isSqlClause(x) == x.k = "clause"

\* flipToObject storing the numeric index of each value: {a:0, b:1, c:2}
flipToObjectNumericIndex(array) ==
    [key \in {array[i] : i \in 1..Len(array)} |->
        Num((CHOOSE i \in 1..Len(array) :
                 array[i] = key /\ \A j \in (i + 1)..Len(array) : array[j] # key) - 1)]

\* ------------------------------------------------------------------------
\* Operator catalog
\* ------------------------------------------------------------------------
\* flipToObject: the object whose keys are the array's values; each key maps
\* to its index, which for ... in yields as a string
flipToObject(array) ==
    [key \in {array[i] : i \in 1..Len(array)} |->
        Str(NatToString((CHOOSE i \in 1..Len(array) :
                 array[i] = key /\ \A j \in (i + 1)..Len(array) : array[j] # key) - 1))]

SQL_OPERATORS ==
    flipToObject(<<<<"<">>, <<">">>, <<"=">>, <<">", "=">>, <<"<", "=">>, <<"<", ">">>, <<"!", "=">>,
                   <<"B", "E", "T", "W", "E", "E", "N">>, <<"I", "N">>, <<"N", "O", "T", " ", "I", "N">>, <<"L", "I", "K", "E">>, <<"N", "O", "T", " ", "L", "I", "K", "E">>,
                   <<"R", "E", "G", "E", "X", "P">>, <<"R", "L", "I", "K", "E">>, <<"N", "O", "T", " ", "R", "E", "G", "E", "X", "P">>,
                   <<"I", "S", "N", "U", "L", "L">>, <<"N", "O", "T", " ", "I", "S", "N", "U", "L", "L">>,
                   <<"E", "X", "I", "S", "T", "S">>, <<"N", "O", "T", " ", "E", "X", "I", "S", "T", "S">>, <<"A", "L", "L">>, <<"A", "N", "Y">>>>)

SQL_OPERATORS_ARRAY ==
    flipToObject(<<<<"B", "E", "T", "W", "E", "E", "N">>, <<"N", "O", "T", " ", "B", "E", "T", "W", "E", "E", "N">>, <<"I", "N">>, <<"N", "O", "T", " ", "I", "N">>>>)

SQL_OPERATORS_LOGIC == flipToObject(<<<<"A", "N", "D">>, <<"O", "R">>, <<"X", "O", "R">>, <<"N", "O", "T">>>>)

\* obj.hasOwnProperty(key), the key converted to a string
hasOwnProperty(obj, key) == JsToString(key) \in DOMAIN obj

\* obj[key] of a catalog object, undefined for a key it does not have
Lookup(obj, key) == IF hasOwnProperty(obj, key) THEN obj[JsToString(key)] ELSE Undef


\* ------------------------------------------------------------------------
\* Storage collaborator ($.db), as far as DbQuery calls it
\* ------------------------------------------------------------------------
TableName == <<"t">>

\* $.db.getColumns(table): the column names of the table
getColumns(table) == <<Str(<<"i", "d">>), Str(<<"a">>), Str(<<"b">>)>>

\* $.db.columnExists(table, column)
columnExists(table, column) ==
    \E i \in 1..Len(getColumns(table)) : getColumns(table)[i] = column

\* $.db.getColumnPlaceholder(table, column)
getColumnPlaceholder(table, column) == <<"?">>

\* ------------------------------------------------------------------------
\* DbQuery: helpers of the filter compiler
\* ------------------------------------------------------------------------
\* _getColumnPlaceholder
_getColumnPlaceholder(table, column) ==
    IF columnExists(table, column) THEN getColumnPlaceholder(table, column) ELSE <<"?">>

\* _getLogicOperator(op1, defaultOp): [ok, ret]; it throws (ok = FALSE) when
\* op1 is truthy and has no toUpperCase method
_getLogicOperator(op1, defaultOp) ==
    LET def == IF Truthy(defaultOp) THEN defaultOp ELSE Str(<<"A", "N", "D">>)
    IN  IF Truthy(op1) /\ ~isString(op1) THEN [ok |-> FALSE, ret |-> Undef]
        ELSE IF Truthy(op1) /\ Truthy(Lookup(SQL_OPERATORS_LOGIC, Str(toUpperCase(op1.v))))
             THEN [ok |-> TRUE, ret |-> Str(toUpperCase(op1.v))]
             ELSE [ok |-> TRUE, ret |-> Str(toUpperCase(def.v))]

\* _prepareColumnName(column): [ok, ret]
_prepareColumnName(column) ==
    IF ~Truthy(column) \/ ~isString(column) THEN [ok |-> FALSE, ret |-> Undef]
    ELSE [ok |-> TRUE, ret |-> Str(toLowerCase(trim(column.v)))]

\* s.indexOf(sub) > -1
Contains(s, sub) ==
    \E i \in 0..(Len(s) - Len(sub)) : SubSeq(s, i + 1, i + Len(sub)) = sub

\* IsNullEntry that leaves the value of the entry in place
IsNullEntryKeepingValue(entry, valueIndex, operator) ==
    SetAt(SetAt(entry, 0,
                SqlClause(Str(operator \o <<"(">> \o JsToString(At(entry, 0)) \o <<")">>),
                          Undef).obj),
          3, _getLogicOperator(Undef, Str(<<>>)).ret)

\* the entry as _prepareSearchOperator rewrites it for ISNULL / NOT ISNULL:
\* entry[0] becomes the clause OPERATOR(column), the value is dropped and
\* entry[3] is set from the dropped value
IsNullEntry(entry, valueIndex, operator) ==
    SetAt(SetAt(SetAt(entry, 0,
                      SqlClause(Str(operator \o <<"(">> \o JsToString(At(entry, 0)) \o <<")">>),
                                Undef).obj),
                valueIndex, Undef),
          3, _getLogicOperator(Undef, Str(<<>>)).ret)

\* _prepareSearchOperator from the catalog lookup on, operator being the
\* trimmed upper-case token
CheckedOperator(entry, valueIndex, operator) ==
    IF /\ ~hasOwnProperty(SQL_OPERATORS, Str(operator))
       /\ ~hasOwnProperty(SQL_OPERATORS_ARRAY, Str(operator))
        THEN [ok |-> FALSE, entry |-> entry, ret |-> Undef]
    ELSE IF Contains(operator, <<"I", "S", "N", "U", "L", "L">>)
        THEN [ok |-> TRUE, entry |-> IsNullEntry(entry, valueIndex, operator),
              ret |-> Str(<<>>)]
    ELSE [ok |-> TRUE, entry |-> entry, ret |-> Str(operator)]

\* _prepareSearchOperator(entry, opIndex, valueIndex, searchIndex):
\* [ok, entry, ret], entry being the entry as the call leaves it
_prepareSearchOperator(entry, opIndex, valueIndex, searchIndex) ==
    IF ~Truthy(At(entry, opIndex)) THEN [ok |-> FALSE, entry |-> entry, ret |-> Undef]
    ELSE IF ~isString(At(entry, opIndex))
        THEN [ok |-> FALSE, entry |-> entry, ret |-> Undef]
    ELSE CheckedOperator(entry, valueIndex, toUpperCase(trim(At(entry, opIndex).v)))

\* _pushValue(value) on the value list sqlValues: [ok, sqlValues]; ok is the
\* function's return value
_pushValue(sqlValues, value) ==
    IF isString(value) \/ isNumeric(value)
        THEN [ok |-> TRUE, sqlValues |-> Append(sqlValues, value)]
    ELSE IF typeOf(value) = "Boolean"
        THEN [ok |-> TRUE, sqlValues |-> Append(sqlValues, Num(IF value.v THEN 1 ELSE 0))]
    ELSE IF typeOf(value) = "null"
        THEN [ok |-> TRUE, sqlValues |-> Append(sqlValues, Str(<<"N", "U", "L", "L">>))]
    ELSE IF typeOf(value) = "Date"
        THEN [ok |-> TRUE, sqlValues |-> Append(sqlValues, Str(toISOString(value.v)))]
    ELSE IF typeOf(value) = "Array"
        THEN [ok |-> TRUE,
              sqlValues |-> Append(sqlValues, Str(<<"'">> \o join(value.v, <<"'", ",", " ", "'">>) \o <<"'">>))]
    ELSE [ok |-> FALSE, sqlValues |-> sqlValues]

\* the loop of _prepareSearchValue over the elements of an array value from
\* index i on: [tmp, sqlValues]; the return value of _pushValue is not read
RECURSIVE PushArrayValues(_, _, _, _, _)
PushArrayValues(value, i, placeholder, tmp, sqlValues) ==
    IF i >= Len(value) THEN [tmp |-> tmp, sqlValues |-> sqlValues]
    ELSE PushArrayValues(value, i + 1, placeholder,
             tmp \o (IF i # 0 THEN <<",", " ">> ELSE <<>>) \o placeholder,
             _pushValue(sqlValues, value[i + 1]).sqlValues)

\* value.split(/\s*,\s*/) as an array of strings
SplitValue(value) == Arr([i \in 1..Len(split(value.v)) |-> Str(split(value.v)[i])])

\* _prepareSearchValue, the scalar branch: pushed is the result of _pushValue
ScalarValue(pushed, sqlValues, placeholder) ==
    IF ~pushed.ok THEN [ok |-> FALSE, sqlValues |-> sqlValues, ret |-> Undef]
    ELSE [ok |-> TRUE, sqlValues |-> pushed.sqlValues, ret |-> Str(placeholder)]

\* _prepareSearchValue, the branch of IN / NOT IN: lst is the result of the loop
ListValue(lst) ==
    [ok |-> TRUE, sqlValues |-> lst.sqlValues, ret |-> Str(lst.tmp \o <<")">>)]

\* PreparedValue that puts the values of a SqlClause before the values
\* pushed so far
PreparedValueClauseFirst(sqlValues, value, operator, valueType, placeholder) ==
    IF valueType = "Array"
        THEN IF ~hasOwnProperty(SQL_OPERATORS_ARRAY, operator)
                 THEN [ok |-> FALSE, sqlValues |-> sqlValues, ret |-> Undef]
             ELSE IF operator = Str(<<"B", "E", "T", "W", "E", "E", "N">>)
                 THEN IF Len(value.v) # 2
                      THEN [ok |-> FALSE, sqlValues |-> sqlValues, ret |-> Undef]
                      ELSE [ok |-> TRUE,
                            sqlValues |-> _pushValue(_pushValue(sqlValues, At(value.v, 0)).sqlValues,
                                                     At(value.v, 1)).sqlValues,
                            ret |-> Str(placeholder \o <<" ", "A", "N", "D", " ">> \o placeholder)]
             ELSE ListValue(PushArrayValues(value.v, 0, placeholder, <<"(">>, sqlValues))
    ELSE IF isSqlClause(value)
        THEN [ok |-> TRUE,
              sqlValues |-> IF SqlClause_hasValues(value)
                            THEN value.v.values \o sqlValues ELSE sqlValues,
              ret |-> Str(SqlClause_get(value))]
    ELSE ScalarValue(_pushValue(sqlValues, value), sqlValues, placeholder)

\* PreparedValue that takes an array value with every operator
PreparedValueAnyArray(sqlValues, value, operator, valueType, placeholder) ==
    IF valueType = "Array"
        THEN IF operator = Str(<<"B", "E", "T", "W", "E", "E", "N">>)
                 THEN IF Len(value.v) # 2
                      THEN [ok |-> FALSE, sqlValues |-> sqlValues, ret |-> Undef]
                      ELSE [ok |-> TRUE,
                            sqlValues |-> _pushValue(_pushValue(sqlValues, At(value.v, 0)).sqlValues,
                                                     At(value.v, 1)).sqlValues,
                            ret |-> Str(placeholder \o <<" ", "A", "N", "D", " ">> \o placeholder)]
             ELSE ListValue(PushArrayValues(value.v, 0, placeholder, <<"(">>, sqlValues))
    ELSE IF isSqlClause(value)
        THEN [ok |-> TRUE,
              sqlValues |-> IF SqlClause_hasValues(value)
                            THEN sqlValues \o value.v.values ELSE sqlValues,
              ret |-> Str(SqlClause_get(value))]
    ELSE ScalarValue(_pushValue(sqlValues, value), sqlValues, placeholder)

\* _prepareSearchValue after the optional split: value is the value, valueType
\* the type the value had before the split
PreparedValue(sqlValues, value, operator, valueType, placeholder) ==
    IF valueType = "Array"
        THEN IF ~hasOwnProperty(SQL_OPERATORS_ARRAY, operator)
                 THEN [ok |-> FALSE, sqlValues |-> sqlValues, ret |-> Undef]
             ELSE IF operator = Str(<<"B", "E", "T", "W", "E", "E", "N">>)
                 THEN IF Len(value.v) # 2
                      THEN [ok |-> FALSE, sqlValues |-> sqlValues, ret |-> Undef]
                      ELSE [ok |-> TRUE,
                            sqlValues |-> _pushValue(_pushValue(sqlValues, At(value.v, 0)).sqlValues,
                                                     At(value.v, 1)).sqlValues,
                            ret |-> Str(placeholder \o <<" ", "A", "N", "D", " ">> \o placeholder)]
             ELSE ListValue(PushArrayValues(value.v, 0, placeholder, <<"(">>, sqlValues))
    ELSE IF isSqlClause(value)
        THEN [ok |-> TRUE,
              sqlValues |-> IF SqlClause_hasValues(value)
                            THEN sqlValues \o value.v.values ELSE sqlValues,
              ret |-> Str(SqlClause_get(value))]
    ELSE ScalarValue(_pushValue(sqlValues, value), sqlValues, placeholder)

\* _prepareSearchValue(entry, opIndex, valueIndex, searchIndex) on the value
\* list sqlValues: [ok, sqlValues, ret]
_prepareSearchValue(sqlValues, entry, opIndex, valueIndex, searchIndex) ==
    IF valueIndex >= Len(entry) \/ At(entry, valueIndex).k = "undef"
        THEN [ok |-> FALSE, sqlValues |-> sqlValues, ret |-> Undef]
    ELSE PreparedValue(sqlValues,
             IF /\ hasOwnProperty(SQL_OPERATORS_ARRAY, At(entry, opIndex))
                /\ isString(At(entry, valueIndex))
             THEN SplitValue(At(entry, valueIndex)) ELSE At(entry, valueIndex),
             At(entry, opIndex),
             typeOf(At(entry, valueIndex)),
             _getColumnPlaceholder(TableName, At(entry, 0)))

\* ------------------------------------------------------------------------
\* DbQuery._buildSqlFromFilterArray
\* ------------------------------------------------------------------------
\* the state of the loop over the filter: the text built so far, the value
\* list, the flag suppressing the next logic operator, and the entry as the
\* loop leaves it in filter[t]; ok = FALSE when the loop body threw
Loop(ok, sql, sqlValues, openBracket, entry) ==
    [ok |-> ok, sql |-> sql, sqlValues |-> sqlValues, openBracket |-> openBracket,
     entry |-> entry]

\* "handle brackets" for an opening bracket that needs its logic operator lo
OpenBracketWithLogic(lo, entry, sql, sqlValues, openBracket) ==
    IF ~lo.ok THEN Loop(FALSE, sql, sqlValues, openBracket, entry)
    ELSE Loop(TRUE, sql \o <<" ">> \o lo.ret.v \o At(entry, 0).v, sqlValues, TRUE, entry)

\* HandleBrackets with a closing bracket that leaves openBracket as it is
HandleBracketsKeepingFlag(entry, sql, sqlValues, openBracket, operator) ==
    IF At(entry, 0) = Str(<<"(">>) /\ ~openBracket
        THEN OpenBracketWithLogic(_getLogicOperator(At(entry, 1), Str(operator)),
                                  entry, sql, sqlValues, openBracket)
    ELSE Loop(TRUE, sql \o At(entry, 0).v, sqlValues, openBracket, entry)

\* loop body, "handle brackets": entry[0] is "(" or ")"
HandleBrackets(entry, sql, sqlValues, openBracket, operator) ==
    IF At(entry, 0) = Str(<<"(">>) /\ ~openBracket
        THEN OpenBracketWithLogic(_getLogicOperator(At(entry, 1), Str(operator)),
                                  entry, sql, sqlValues, openBracket)
    ELSE IF At(entry, 0) = Str(<<")">>)
        THEN Loop(TRUE, sql \o At(entry, 0).v, sqlValues, FALSE, entry)
    ELSE Loop(TRUE, sql \o At(entry, 0).v, sqlValues, openBracket, entry)

\* "handle string clauses", the assignment of entry[3]: lo is the result of
\* _getLogicOperator(entry[3], operator)
StringClauseLogic(lo, entry, sql, sqlValues, openBracket) ==
    IF ~lo.ok THEN Loop(FALSE, sql, sqlValues, openBracket, entry)
    ELSE IF ~hasOwnProperty(SQL_OPERATORS_LOGIC, lo.ret)
        THEN Loop(FALSE, sql, sqlValues, openBracket, SetAt(entry, 3, lo.ret))
    ELSE Loop(TRUE, sql, sqlValues, openBracket, SetAt(entry, 3, lo.ret))

\* "handle string clauses", the assignment of entry[2]: v is the result of
\* _prepareSearchValue when entry[2] is not undefined (hasValue)
StringClauseValue(hasValue, v, entry, sql, sqlValues, openBracket, operator) ==
    IF hasValue /\ ~v.ok THEN Loop(FALSE, sql, sqlValues, openBracket, entry)
    ELSE StringClauseLogic(
             _getLogicOperator(At(entry, 3), Str(operator)),
             IF hasValue THEN SetAt(entry, 2, v.ret) ELSE entry,
             sql,
             IF hasValue THEN v.sqlValues ELSE sqlValues,
             openBracket)

\* "handle string clauses", the assignment of entry[1]: o is the result of
\* _prepareSearchOperator when entry[1] is truthy (hasOp)
StringClauseOperator(hasOp, o, entry, sql, sqlValues, openBracket, operator, t) ==
    IF hasOp /\ ~o.ok THEN Loop(FALSE, sql, sqlValues, openBracket, entry)
    ELSE StringClauseValue(
             At(IF hasOp THEN o.entry ELSE entry, 2).k # "undef",
             _prepareSearchValue(sqlValues,
                                 IF hasOp THEN SetAt(o.entry, 1, o.ret) ELSE entry, 1, 2, t),
             IF hasOp THEN SetAt(o.entry, 1, o.ret) ELSE entry,
             sql, sqlValues, openBracket, operator)

\* loop body, "handle string clauses": operator, value and logic operator of
\* an entry whose entry[0] is a string
HandleStringClause(entry, sql, sqlValues, openBracket, operator, t) ==
    StringClauseOperator(Truthy(At(entry, 1)), _prepareSearchOperator(entry, 1, 2, t),
                         entry, sql, sqlValues, openBracket, operator, t)

\* loop body, the emission of one clause: sql1 is the text with the logic
\* operator appended unless it is suppressed
EmitClause(entry, sql1, sqlValues, t) ==
    IF isString(At(entry, 0))
        THEN Loop(TRUE, sql1 \o <<"(">> \o join(SetLength(entry, 3), <<" ">>) \o <<")">>,
                  sqlValues, FALSE, SetLength(entry, 3))
    ELSE IF isSqlClause(At(entry, 0))
        THEN Loop(TRUE, sql1 \o <<"(">> \o SqlClause_get(At(entry, 0)) \o <<")">>,
                  IF SqlClause_hasValues(At(entry, 0))
                  THEN sqlValues \o At(entry, 0).v.values ELSE sqlValues,
                  FALSE, entry)
    ELSE Loop(FALSE, sql1, sqlValues, FALSE, entry)

\* loop body after "handle string clauses", whose result is c
AfterStringClause(c, t) ==
    IF ~c.ok THEN c
    ELSE EmitClause(c.entry,
                    IF ~c.openBracket
                    THEN c.sql \o <<" ">> \o JsToString(At(c.entry, 3)) \o <<" ">>
                    ELSE c.sql,
                    c.sqlValues, t)

\* loop body after the brackets: col is the result of _prepareColumnName when
\* the filter element is a string (isStr)
HandleClause(isStr, col, entry, sql, sqlValues, openBracket, operator, t) ==
    IF isStr /\ ~col.ok THEN Loop(FALSE, sql, sqlValues, openBracket, entry)
    ELSE AfterStringClause(
             IF isString(IF isStr THEN col.ret ELSE At(entry, 0))
             THEN HandleStringClause(IF isStr THEN SetAt(entry, 0, col.ret) ELSE entry,
                                     sql, sqlValues, openBracket, operator, t)
             ELSE Loop(TRUE, sql, sqlValues, openBracket, entry),
             t)

\* loop body from "handle brackets" on, for the entry array `entry`;
\* entryType is $.typeOf of the filter element the entry was made from
HandleEntry(entry, entryType, sql, sqlValues, openBracket, operator, t) ==
    IF At(entry, 0) = Str(<<"(">>) \/ At(entry, 0) = Str(<<")">>)
        THEN HandleBrackets(entry, sql, sqlValues, openBracket, operator)
    ELSE HandleClause(entryType = "String", _prepareColumnName(At(entry, 0)),
                      entry, sql, sqlValues, openBracket, operator, t)

\* the value filter[t] holds after the loop body with result h
StoreEntry(h, raw) == [h EXCEPT !.entry = IF isArray(raw) THEN Arr(h.entry) ELSE raw]

\* one pass of the loop body for the filter element raw = filter[t]: the
\* copy made by slice(0), the shape checks, then HandleEntry.  The field
\* entry of the result is the value filter[t] holds afterwards.
LoopBody(raw, sql, sqlValues, openBracket, operator, t) ==
    IF ~isArray(raw) /\ ~isString(raw) THEN Loop(FALSE, sql, sqlValues, openBracket, raw)
    ELSE IF ~Truthy(raw) THEN Loop(FALSE, sql, sqlValues, openBracket, raw)
    ELSE IF typeOf(raw) # "Array" /\ raw # Str(<<"(">>) /\ raw # Str(<<")">>)
        THEN Loop(FALSE, sql, sqlValues, openBracket, raw)
    ELSE IF typeOf(raw) = "Array" /\ ~Truthy(At(raw.v, 0))
        THEN Loop(FALSE, sql, sqlValues, openBracket, raw)
    ELSE StoreEntry(HandleEntry(IF isArray(raw) THEN raw.v ELSE <<raw>>, typeOf(raw),
                                sql, sqlValues, openBracket, operator, t),
                    raw)

RECURSIVE FilterLoop(_, _, _, _, _, _)
\* the loop after the pass for filter[t], whose result is b
FilterStep(b, filter, t, operator) ==
    IF ~b.ok
    THEN [ok |-> FALSE, sql |-> b.sql, sqlValues |-> b.sqlValues,
          filter |-> SetAt(filter, t, b.entry)]
    ELSE FilterLoop(SetAt(filter, t, b.entry), t + 1, b.sql, b.sqlValues, b.openBracket,
                    operator)

\* the loop over filter from index t on: [ok, sql, sqlValues, filter]
FilterLoop(filter, t, sql, sqlValues, openBracket, operator) ==
    IF t >= Len(filter)
    THEN [ok |-> TRUE, sql |-> sql, sqlValues |-> sqlValues, filter |-> filter]
    ELSE FilterStep(LoopBody(filter[t + 1], sql, sqlValues, openBracket, operator, t),
                    filter, t, operator)

\* the result of _buildSqlFromFilterArray: whether it returned (ok) or threw,
\* the returned WHERE text, this._sqlValues and the caller's search.filter as
\* the call leaves them
Built(ok, ret, sqlValues, filter) ==
    [ok |-> ok, ret |-> ret, sqlValues |-> sqlValues, filter |-> filter]

\* _buildSqlFromFilterArray after the loop, whose result is w; a filter that
\* was wrapped in a new array leaves the caller's array alone
AfterFilterLoop(w, wrapped, search) ==
    Built(w.ok, w.sql, w.sqlValues, IF wrapped THEN search.filter ELSE Arr(w.filter))

\* _buildSqlFromFilterArray from the default logic operator on; useOp says
\* whether search.operator is given and not empty
BuildWithOperator(search, useOp, operator) ==
    IF useOp /\ ~isString(search.operator) THEN Built(FALSE, <<>>, <<>>, search.filter)
    ELSE IF ~Truthy(Lookup(SQL_OPERATORS_LOGIC, Str(operator)))
        THEN Built(FALSE, <<>>, <<>>, search.filter)
    ELSE AfterFilterLoop(
             FilterLoop(IF ~isArray(At(search.filter.v, 0))
                        THEN <<search.filter>> ELSE search.filter.v,
                        0, <<>>, <<>>, TRUE, operator),
             ~isArray(At(search.filter.v, 0)), search)

\* search.operator && search.operator.length
HasDefaultOperator(op) == Truthy(op) /\ op.k \in {"str", "arr"} /\ Len(op.v) > 0

\* _buildSqlFromFilterArray(search)
_buildSqlFromFilterArray(search) ==
    IF ~isArray(search.filter) THEN Built(FALSE, <<>>, <<>>, search.filter)
    ELSE IF Len(search.filter.v) = 0 THEN Built(TRUE, <<>>, <<>>, search.filter)
    ELSE BuildWithOperator(search, HasDefaultOperator(search.operator),
             IF HasDefaultOperator(search.operator) /\ isString(search.operator)
             THEN toUpperCase(search.operator.v) ELSE <<"A", "N", "D">>)

\* ------------------------------------------------------------------------
\* DbQuery: statement builders
\* ------------------------------------------------------------------------
\* value of a string of decimal digits
RECURSIVE DigitsToNat(_)
DigitsToNat(s) ==
    IF Len(s) = 0 THEN 0
    ELSE 10 * DigitsToNat(SubSeq(s, 1, Len(s) - 1))
             + ((CHOOSE j \in 1..Len(DigitChars) : DigitChars[j] = s[Len(s)]) - 1)

IsDigitChar(c) == \E j \in 1..Len(DigitChars) : DigitChars[j] = c

\* parseInt(x, 10) as the text string concatenation makes of its result
parseInt(x) ==
    LET t == trimLeft(JsToString(x))
        neg == Len(t) > 0 /\ t[1] = "-"
        u == IF Len(t) > 0 /\ t[1] \in {"-", "+"} THEN Tail(t) ELSE t
        n == IF \E i \in 1..Len(u) : ~IsDigitChar(u[i])
             THEN (CHOOSE i \in 1..Len(u) :
                       ~IsDigitChar(u[i]) /\ \A j \in 1..(i - 1) : IsDigitChar(u[j])) - 1
             ELSE Len(u)
        d == DigitsToNat(SubSeq(u, 1, n))
    IN  IF n = 0 THEN <<"N", "a", "N">>
        ELSE IF neg /\ d # 0 THEN <<"-">> \o NatToString(d) ELSE NatToString(d)

\* x > 0 for a value x, which the comparison converts to a number
GreaterThanZero(x) ==
    CASE x.k = "num" -> x.v > 0
      [] x.k = "bool" -> x.v
      [] x.k \in {"null", "undef", "obj", "date"} -> x.k = "date"
      [] OTHER -> LET t == trim(JsToString(x))
                  IN  IsNumericString(t) /\ t[1] # "-" /\ DigitsToNat(IF t[1] = "+" THEN Tail(t) ELSE t) > 0

\* _buildSqlLimit that takes every count of a two-element array
_buildSqlLimitAnyCount(limit) ==
    IF ~Truthy(limit) THEN <<>>
    ELSE IF isArray(limit) /\ Len(limit.v) >= 2
        THEN <<"L", "I", "M", "I", "T", " ">> \o parseInt(At(limit.v, 0)) \o <<",", " ">> \o parseInt(At(limit.v, 1))
    ELSE IF isNumeric(limit) THEN <<"L", "I", "M", "I", "T", " ">> \o parseInt(limit)
    ELSE <<>>

\* _buildSqlLimit(limit)
_buildSqlLimit(limit) ==
    IF ~Truthy(limit) THEN <<>>
    ELSE IF isArray(limit) /\ Len(limit.v) >= 2 /\ GreaterThanZero(At(limit.v, 1))
        THEN <<"L", "I", "M", "I", "T", " ">> \o parseInt(At(limit.v, 0)) \o <<",", " ">> \o parseInt(At(limit.v, 1))
    ELSE IF isNumeric(limit) THEN <<"L", "I", "M", "I", "T", " ">> \o parseInt(limit)
    ELSE <<>>

\* the [column, direction] pair o as _buildSqlOrderBy rewrites it; in
\* (!dir || !dir.toUpperCase() in allowedDir) the negation binds before in,
\* and "false" is no key of allowedDir
OrderPair(o) ==
    IF ~Truthy(At(o, 1)) \/ <<"f", "a", "l", "s", "e">> \in {<<"A", "S", "C">>, <<"D", "E", "S", "C">>}
    THEN SetAt(o, 1, Str(<<"A", "S", "C">>))
    ELSE SetAt(o, 1, Str(toUpperCase(At(o, 1).v)))

RECURSIVE OrderByLoop(_, _, _)
\* the loop of _buildSqlOrderBy after a [column, direction] pair was
\* rewritten to o1
OrderByPair(o1, orderBy, t, sqlOrderBy) ==
    OrderByLoop(SetAt(orderBy, t, Arr(o1)), t + 1, Append(sqlOrderBy, join(o1, <<" ">>)))

\* the loop of _buildSqlOrderBy over orderBy from index t on:
\* [ok, sqlOrderBy, orderBy], orderBy as the loop leaves the caller's array
OrderByLoop(orderBy, t, sqlOrderBy) ==
    IF t >= Len(orderBy)
        THEN [ok |-> TRUE, sqlOrderBy |-> sqlOrderBy, orderBy |-> orderBy]
    ELSE IF isString(orderBy[t + 1])
        THEN OrderByLoop(orderBy, t + 1, Append(sqlOrderBy, orderBy[t + 1].v))
    ELSE IF isArray(orderBy[t + 1]) /\ Len(orderBy[t + 1].v) >= 1
        THEN IF Truthy(At(orderBy[t + 1].v, 1)) /\ ~isString(At(orderBy[t + 1].v, 1))
             THEN [ok |-> FALSE, sqlOrderBy |-> sqlOrderBy, orderBy |-> orderBy]
             ELSE OrderByPair(OrderPair(orderBy[t + 1].v), orderBy, t, sqlOrderBy)
    ELSE OrderByLoop(orderBy, t + 1, sqlOrderBy)

\* " ORDER BY " and the terms, or nothing when there is no term
OrderByText(parts) ==
    IF Len(parts) > 0 THEN <<" ", "O", "R", "D", "E", "R", " ", "B", "Y", " ">> \o JoinStrings(parts, <<",", " ">>) ELSE <<>>

\* _buildSqlOrderBy for an array, the loop's result being l
OrderByArray(l) == [ok |-> l.ok, ret |-> OrderByText(l.sqlOrderBy), orderBy |-> Arr(l.orderBy)]

\* _buildSqlOrderBy(orderBy): [ok, ret, orderBy]
_buildSqlOrderBy(orderBy) ==
    IF ~Truthy(orderBy) THEN [ok |-> TRUE, ret |-> <<>>, orderBy |-> orderBy]
    ELSE IF isArray(orderBy) THEN OrderByArray(OrderByLoop(orderBy.v, 0, <<>>))
    ELSE IF isString(orderBy)
        THEN [ok |-> TRUE, ret |-> OrderByText(<<orderBy.v>>), orderBy |-> orderBy]
    ELSE [ok |-> TRUE, ret |-> <<>>, orderBy |-> orderBy]

\* $.isObject of the application framework
isObject(x) == x.k \in {"obj", "clause", "arr", "date"}

\* _searchPrepareReturnColumns(columnList): [ok, ret]
_searchPrepareReturnColumns(columnList) ==
    LET columns == getColumns(TableName)
        Known(c) == \E i \in 1..Len(columns) : columns[i] = c
    IN  IF ~isArray(columnList) \/ Len(columnList.v) < 1
            THEN [ok |-> TRUE, ret |-> columns]
        ELSE IF \A t \in 1..Len(columnList.v) :
                    \/ isString(columnList.v[t]) /\ Known(columnList.v[t])
                    \/ ~isString(columnList.v[t]) /\ isObject(columnList.v[t])
            THEN [ok |-> TRUE, ret |-> columnList.v]
        ELSE [ok |-> FALSE, ret |-> <<>>]

\* _buildSqlColumns that lists the columns last to first
_buildSqlColumnsReversed(columns) ==
    join([i \in 1..Len(columns) |->
             IF isSqlClause(columns[Len(columns) + 1 - i])
             THEN Str(SqlClause_get(columns[Len(columns) + 1 - i]))
             ELSE columns[Len(columns) + 1 - i]],
         <<",", " ">>)

\* _buildSqlColumns(columns)
_buildSqlColumns(columns) ==
    join([i \in 1..Len(columns) |->
             IF isSqlClause(columns[i]) THEN Str(SqlClause_get(columns[i])) ELSE columns[i]],
         <<",", " ">>)

\* WherePart that emits the WHERE keyword for an empty fragment too
WherePartAlways(sqlWhere) == <<" ", "W", "H", "E", "R", "E", " ">> \o sqlWhere

\* " WHERE " + sqlWhere, or nothing for an empty sqlWhere
WherePart(sqlWhere) == IF Len(sqlWhere) > 0 THEN <<" ", "W", "H", "E", "R", "E", " ">> \o sqlWhere ELSE <<>>

\* A search object of the caller
Search(filter, operator, columns, order, limit) ==
    [filter |-> filter, operator |-> operator, columns |-> columns,
     order |-> order, limit |-> limit]

\* The outcome of a prepare* call on a DbQuery whose fields are sql and
\* sqlValues: whether it returned (ok), the WHERE text the filter compiled to,
\* the fields of the DbQuery and the caller's search object afterwards
Outcome(ok, where, sql, sqlValues, search) ==
    [ok |-> ok, where |-> where, sql |-> sql, sqlValues |-> sqlValues, search |-> search]

\* prepareSearch after the ORDER BY clause, whose result is ob
SearchOrdered(ob, stmt, w, s2) ==
    IF Truthy(s2.order) /\ ~ob.ok THEN Outcome(FALSE, w.ret, stmt, w.sqlValues, s2)
    ELSE Outcome(TRUE, w.ret,
                 stmt \o (IF Truthy(s2.order) THEN ob.ret ELSE <<>>)
                      \o (IF Truthy(s2.limit) THEN _buildSqlLimit(s2.limit) ELSE <<>>),
                 w.sqlValues,
                 [s2 EXCEPT !.order = ob.orderBy])

\* prepareSearch after the filter is compiled, with result w
SearchCompiled(w, rc, sql, s1) ==
    IF ~w.ok THEN Outcome(FALSE, <<>>, sql, w.sqlValues, [s1 EXCEPT !.filter = w.filter])
    ELSE SearchOrdered(_buildSqlOrderBy(s1.order),
                       <<"S", "E", "L", "E", "C", "T", " ">> \o _buildSqlColumns(rc.ret) \o <<" ", "F", "R", "O", "M", " ">> \o TableName
                           \o WherePart(w.ret),
                       w, [s1 EXCEPT !.filter = w.filter])

\* SearchColumns that compiles the filter before it looks at the columns
SearchColumnsCompilingFirst(rc, sql, sqlValues, s1) ==
    IF ~rc.ok
    THEN Outcome(FALSE, <<>>, sql, _buildSqlFromFilterArray(s1).sqlValues,
                 [s1 EXCEPT !.filter = _buildSqlFromFilterArray(s1).filter])
    ELSE SearchCompiled(_buildSqlFromFilterArray(s1), rc, sql, s1)

\* prepareSearch after the return columns are prepared, with result rc
SearchColumns(rc, sql, sqlValues, s1) ==
    IF ~rc.ok THEN Outcome(FALSE, <<>>, sql, sqlValues, s1)
    ELSE SearchCompiled(_buildSqlFromFilterArray(s1), rc, sql, s1)

\* prepareSearch for the search object s1, whose columns are set
SearchWith(sql, sqlValues, s1) ==
    SearchColumns(_searchPrepareReturnColumns(s1.columns), sql, sqlValues, s1)

\* prepareSearch(search) on a DbQuery with fields sql and sqlValues
prepareSearch(sql, sqlValues, search) ==
    SearchWith(sql, sqlValues,
               IF ~Truthy(search.columns) THEN [search EXCEPT !.columns = Null] ELSE search)

\* prepareCount after the filter is compiled, with result w
CountCompiled(w, sql, search) ==
    IF ~w.ok THEN Outcome(FALSE, <<>>, sql, w.sqlValues, [search EXCEPT !.filter = w.filter])
    ELSE Outcome(TRUE, w.ret, <<"S", "E", "L", "E", "C", "T", " ", "C", "O", "U", "N", "T", "(", "*", ")", " ", "F", "R", "O", "M", " ">> \o TableName \o WherePart(w.ret),
                 w.sqlValues, [search EXCEPT !.filter = w.filter])

\* prepareCount(search) on a DbQuery with fields sql and sqlValues
prepareCount(sql, sqlValues, search) ==
    CountCompiled(_buildSqlFromFilterArray(search), sql, search)

\* prepareDeleteSearch after the filter is compiled, with result w
DeleteCompiled(w, sql, search) ==
    IF ~w.ok THEN Outcome(FALSE, <<>>, sql, w.sqlValues, [search EXCEPT !.filter = w.filter])
    ELSE Outcome(TRUE, w.ret,
                 <<"D", "E", "L", "E", "T", "E", " ", "F", "R", "O", "M", " ">> \o TableName \o WherePart(w.ret)
                     \o _buildSqlLimit(search.limit),
                 w.sqlValues, [search EXCEPT !.filter = w.filter])

\* prepareDeleteSearch(search) on a DbQuery with fields sql and sqlValues
prepareDeleteSearch(sql, sqlValues, search) ==
    DeleteCompiled(_buildSqlFromFilterArray(search), sql, search)

\* the argument of search, count or deleteSearch is a search object
IsSearchObject(arg) == "filter" \in DOMAIN arg

\* search(search, successCallback, errorCallback) before it calls execute
DbQuery_search(sql, sqlValues, arg) ==
    IF ~IsSearchObject(arg) /\ isArray(arg)
        THEN prepareSearch(sql, sqlValues, Search(arg, Undef, Undef, Undef, Undef))
    ELSE IF ~IsSearchObject(arg) \/ ~Truthy(arg.filter)
        THEN Outcome(FALSE, <<>>, sql, sqlValues, arg)
    ELSE prepareSearch(sql, sqlValues, arg)

\* count(search, successCallback, errorCallback) before it calls executeOneValue
DbQuery_count(sql, sqlValues, arg) ==
    IF ~IsSearchObject(arg) \/ ~Truthy(arg.filter)
    THEN prepareCount(sql, sqlValues, Search(Arr(<<>>), Undef, Undef, Undef, Undef))
    ELSE prepareCount(sql, sqlValues, arg)

\* deleteSearch(search, successCallback, errorCallback) before it calls execute
DbQuery_deleteSearch(sql, sqlValues, arg) == prepareDeleteSearch(sql, sqlValues, arg)

\* one thing done with the DbQuery: a call of the method has returned (ok)
\* or thrown and left the fields sql and sqlValues in the DbQuery ("call"),
\* or $db.executeSql was handed sql and sqlValues ("executeSql") in the
\* transaction opened by the call at the place call of the log
Ran(e, method, ok, sql, sqlValues, call) ==
    [e |-> e, method |-> method, ok |-> ok, sql |-> sql, sqlValues |-> sqlValues, call |-> call]

\* a transaction opened by execute or executeOneValue (kind) for the call
\* at the place call of the log
QueryTransaction(kind, call) == [kind |-> kind, call |-> call]

\* executeInTransaction that executes what the call of the transaction built
executeInTransactionAsBuilt(l, sql, sqlValues, tx) ==
    Ran("executeSql", tx.kind, TRUE, l[tx.call].sql, l[tx.call].sqlValues, tx.call)

\* executeInTransaction(tx, successCallback, errorCallback) in the
\* transaction tx on a DbQuery with the fields sql and sqlValues: what
\* $db.executeSql is handed
executeInTransaction(l, sql, sqlValues, tx) ==
    Ran("executeSql", tx.kind, TRUE, sql, sqlValues, tx.call)

\* ------------------------------------------------------------------------
\* Inputs: the filter entries and search objects the caller builds
\* ------------------------------------------------------------------------
\* [column, operator, value]
P(column, operator, value) == Arr(<<Str(column), Str(operator), value>>)
\* [column, operator, value, logicOperator]
PL(column, operator, value, logic) == Arr(<<Str(column), Str(operator), value, Str(logic)>>)

\* new $.SqlClause('SELECT id FROM foo WHERE a=? and b=?', [5, 6])
ExampleClause == SqlClause(Str(<<"S", "E", "L", "E", "C", "T", " ", "i", "d", " ", "F", "R", "O", "M", " ", "f", "o", "o", " ", "W", "H", "E", "R", "E", " ", "a", "=", "?", " ", "a", "n", "d", " ", "b", "=", "?">>), Arr(<<Num(5), Num(6)>>)).obj

\* entries that differ in their logic operator
LogicEntries ==
    { P(<<"a">>, <<"=">>, Num(1)),
      PL(<<"b">>, <<"!", "=">>, Num(1), <<"x", "o", "r">>),
      PL(<<"b">>, <<"!", "=">>, Num(1), <<"M", "A", "Y", "B", "E">>),
      PL(<<"b">>, <<"I", "S", "N", "U", "L", "L">>, Undef, <<"O", "R">>) }

\* entries that differ in their operator token
OperatorEntries ==
    { P(<<"a">>, <<"<", ">">>, Num(1)),
      P(<<"a">>, <<" ", "l", "i", "k", "e", " ">>, Str(<<"x">>)),
      P(<<"a">>, <<"I", "n">>, Arr(<<Num(1), Num(2)>>)),
      P(<<"a">>, <<"F", "O", "O">>, Num(1)),
      P(<<"a">>, <<>>, Num(1)),
      Arr(<<Str(<<"a">>), Num(5), Num(1)>>) }

\* entries with array-valued operators and array or string values
ArrayEntries ==
    { P(<<"b">>, <<"B", "E", "T", "W", "E", "E", "N">>, Str(<<"5", ",", "6">>)),
      P(<<"b">>, <<"B", "E", "T", "W", "E", "E", "N">>, Arr(<<Num(5), Num(6)>>)),
      P(<<"b">>, <<"b", "e", "t", "w", "e", "e", "n">>, Str(<<"5", " ", ",", " ", "6", ",", "7">>)),
      P(<<"b">>, <<"B", "E", "T", "W", "E", "E", "N">>, Arr(<<Num(5), Num(6), Num(7)>>)),
      P(<<"y">>, <<"n", "o", "t", " ", "i", "n">>, Str(<<"5", ",", "6", ",", "7">>)),
      P(<<"c">>, <<"I", "N">>, Arr(<<Num(6), Num(7), Num(8), Num(9)>>)),
      P(<<"c">>, <<"I", "N">>, Arr(<<Obj, Num(1)>>)),
      P(<<"c">>, <<"=">>, Arr(<<Num(1), Num(2)>>)) }

\* entries with scalar values of every kind
ScalarEntries ==
    { P(<<"a">>, <<"=">>, Num(1)),
      P(<<"a">>, <<"=">>, Str(<<"x">>)),
      P(<<"a">>, <<"=">>, Null),
      P(<<"a">>, <<"=">>, Bool(TRUE)),
      P(<<"a">>, <<"=">>, Date(2012, 11, 1)),
      P(<<"a">>, <<"=">>, Obj) }

\* brackets and SqlClause objects
GroupEntries ==
    { Arr(<<Str(<<"(">>)>>), Arr(<<Str(<<")">>)>>), Arr(<<Str(<<"(">>), Str(<<"O", "R">>)>>),
      PL(<<"c">>, <<"I", "N">>, Arr(<<Num(6), Num(7)>>), <<"O", "R">>),
      Arr(<<ExampleClause, Str(<<"O", "R">>)>>) }

\* entries that differ in their column
ColumnEntries ==
    { P(<<" ", "N", "a", "m", "e", " ">>, <<"=">>, Num(1)),
      P(<<>>, <<"=">>, Num(1)),
      Arr(<<Num(5), Str(<<"=">>), Num(1)>>) }

\* ISNULL / NOT ISNULL entries, without and with a value, and an entry with a
\* scalar operator and a SqlClause as value
NullTestEntries ==
    { P(<<"b">>, <<"I", "S", "N", "U", "L", "L">>, Undef),
      Arr(<<Str(<<"b">>), Str(<<" ", "i", "s", "n", "u", "l", "l", " ">>)>>),
      P(<<"b">>, <<"n", "o", "t", " ", "i", "s", "n", "u", "l", "l">>, Num(5)),
      P(<<"z">>, <<"I", "S", "N", "U", "L", "L">>, ExampleClause),
      P(<<"b">>, <<"I", "S", "N", "U", "L", "L">>, Arr(<<Num(1), Num(2)>>)),
      P(<<"z">>, <<"=">>, ExampleClause) }

\* the sequences over S of at most n elements
SeqsUpTo(S, n) == UNION {[1..m -> S] : m \in 0..n}

\* the default logic operators (search.operator) the caller gives
DefaultOperators == {Undef, Str(<<>>), Str(<<"o", "r">>), Str(<<"A", "N", "D">>), Str(<<"M", "A", "Y", "B", "E">>)}

\* the filters the caller combines with each default logic operator
DefaultOperatorFilters ==
    { <<>>,
      <<P(<<"a">>, <<"=">>, Num(1))>>,
      <<P(<<"a">>, <<"=">>, Num(1)), P(<<"b">>, <<"!", "=">>, Num(1))>>,
      <<P(<<"a">>, <<"=">>, Num(1)), PL(<<"b">>, <<"!", "=">>, Num(1), <<"O", "R">>)>> }

\* the example "With parenthesis" of the class documentation, filters with
\* a SqlClause as entry, and a SqlClause value between two predicates
ExampleFilters ==
    { <<Arr(<<Str(<<"(">>)>>), P(<<"a">>, <<"=">>, Num(1)), P(<<"b">>, <<"!", "=">>, Num(1)),
        Arr(<<Str(<<")">>)>>),
        PL(<<"c">>, <<"I", "N">>, Arr(<<Num(6), Num(7), Num(8), Num(9)>>), <<"O", "R">>)>>,
      <<ExampleClause>>,
      <<P(<<"a">>, <<"=">>, Num(1)), ExampleClause>>,
      <<Arr(<<ExampleClause>>)>>,
      <<P(<<"a">>, <<"=">>, Num(1)), Arr(<<ExampleClause>>)>>,
      <<P(<<"a">>, <<"=">>, Num(1)), Arr(<<ExampleClause, Str(<<"O", "R">>)>>)>>,
      <<P(<<"a">>, <<"=">>, Num(1)), Arr(<<Str(<<"(">>)>>), P(<<"b">>, <<"!", "=">>, Num(1)),
        Arr(<<Str(<<")">>)>>)>>,
      <<P(<<"a">>, <<"=">>, Num(1)), P(<<"c">>, <<"=">>, Arr(<<Num(1), Num(2)>>))>>,
      <<P(<<"z">>, <<"I", "N">>, ExampleClause)>>,
      <<P(<<"a">>, <<"=">>, Num(1)), P(<<"z">>, <<"I", "N">>, ExampleClause)>>,
      <<P(<<"a">>, <<"=">>, Num(1)), P(<<"z">>, <<"=">>, ExampleClause), P(<<"b">>, <<"!", "=">>, Num(1))>>,
      <<P(<<"b">>, <<"N", "O", "T", " ", "B", "E", "T", "W", "E", "E", "N">>, Arr(<<Num(5), Num(6)>>))>>,
      <<P(<<"b">>, <<"n", "o", "t", " ", "b", "e", "t", "w", "e", "e", "n">>, Arr(<<Num(5), Num(6), Num(7)>>))>>,
      <<P(<<"a">>, <<"=">>, Num(1)), P(<<"b">>, <<"N", "O", "T", " ", "B", "E", "T", "W", "E", "E", "N">>, Arr(<<Num(5), Num(6)>>))>> }

\* search objects holding a filter in the canonical array-of-entries form
CanonicalSearches ==
    {Search(Arr(f), op, Undef, Undef, Undef) :
        f \in DefaultOperatorFilters, op \in DefaultOperators}
    \cup
    {Search(Arr(f), Undef, Undef, Undef, Undef) :
        f \in SeqsUpTo(LogicEntries, MaxEntries) \cup SeqsUpTo(GroupEntries, MaxEntries)}
    \cup
    {Search(Arr(<<e>>), Undef, Undef, Undef, Undef) :
        e \in OperatorEntries \cup ArrayEntries \cup ScalarEntries \cup ColumnEntries
                \cup NullTestEntries \cup {Str(<<")">>)}}
    \cup
    {Search(Arr(<<P(<<"a">>, <<"=">>, Num(1)), e>>), op, Undef, Undef, Undef) :
        e \in NullTestEntries, op \in {Undef, Str(<<"o", "r">>)}}
    \cup
    {Search(Arr(f), Undef, Undef, Undef, Undef) : f \in ExampleFilters}

\* search objects holding a single predicate not wrapped in an outer array,
\* and search objects whose filter is no array
OtherSearches ==
    {Search(e, op, Undef, Undef, Undef) :
        e \in {x \in LogicEntries \cup ArrayEntries : isArray(x)}, op \in {Undef, Str(<<"o", "r">>)}}
    \cup {Search(Undef, Undef, Undef, Undef, Undef),
          Search(Str(<<"a", "=", "1">>), Undef, Undef, Undef, Undef)}

\* search objects with columns, order and limit
OptionSearches ==
    {Search(Arr(f), Undef, c, o, l) :
        f \in {<<>>, <<P(<<"a">>, <<"=">>, Num(1))>>},
        c \in {Undef, Arr(<<Str(<<"b">>), Str(<<"a">>)>>), Arr(<<Str(<<"n", "o", "p", "e">>)>>)},
        o \in {Undef, Str(<<"a", " ", "D", "E", "S", "C">>), Arr(<<Arr(<<Str(<<"a">>), Str(<<"d", "e", "s", "c">>)>>), Arr(<<Str(<<"b">>), Str(<<"f", "o", "o">>)>>), Arr(<<Str(<<"i", "d">>)>>)>>)},
        l \in {Undef, Num(0), Num(10), Arr(<<Num(0), Num(10)>>), Arr(<<Num(5), Num(0)>>)}}

\* search objects that differ in their order
OrderSearches ==
    {Search(Arr(<<>>), Undef, Undef, o, Undef) :
        o \in {Arr(<<Arr(<<Str(<<"a">>), Str(<<"d", "e", "s", "c">>)>>), Arr(<<Str(<<"i", "d">>)>>)>>),
               Arr(<<Str(<<"b">>), Arr(<<Str(<<"a">>), Str(<<"A", "s", "c">>)>>)>>),
               Arr(<<Arr(<<Str(<<"a">>), Num(5)>>)>>)}}

\* search objects that differ in their limit
LimitSearches ==
    {Search(Arr(<<>>), Undef, Undef, Undef, l) :
        l \in {Null, Num(-1), Arr(<<Num(3), Num(7)>>), Arr(<<Num(2), Num(-1)>>)}}

\* a SqlClause that names no column of the table
ColumnClause == SqlClause(Str(<<"n", "o", "p", "e", " ", "+", " ", "1">>), Arr(<<>>)).obj

\* search objects that differ in their columns
ColumnSearches ==
    {Search(Arr(<<P(<<"a">>, <<"=">>, Num(1))>>), Undef, c, Undef, Undef) :
        c \in {Null, Arr(<<>>),
               Arr(<<ColumnClause, Str(<<"a">>)>>),
               Arr(<<Str(<<"b">>), ExampleClause, Str(<<"i", "d">>)>>),
               Arr(<<Str(<<"i", "d">>), Str(<<"n", "o", "p", "e">>)>>),
               Arr(<<Str(<<"i", "d">>), Num(5)>>)}}

Searches ==
    CanonicalSearches \cup OtherSearches \cup OptionSearches \cup OrderSearches
        \cup LimitSearches \cup ColumnSearches

\* the examples of the class documentation the caller may have run before
ExampleSearches ==
    {Search(Arr(<<P(<<"a">>, <<"=">>, Num(1)), PL(<<"b">>, <<"!", "=">>, Num(1), <<"O", "R">>)>>),
            Undef, Undef, Undef, Undef)}

\* ------------------------------------------------------------------------
\* State
\* ------------------------------------------------------------------------
VARIABLES
    _sql,        \* DbQuery._sql
    _sqlValues,  \* DbQuery._sqlValues
    fresh,       \* no prepare* call has been made on the DbQuery
    search,      \* <<the caller's search object>>, <<>> before it is built
    given,       \* the search object as the caller built it
    calls,       \* number of prepare* calls made with the search object
    first,       \* record of the first of these calls
    last,        \* record of the latest of these calls
    clause,      \* the SqlClause the caller works with and its construction
    updater,     \* the fields of the DbUpdater
    connection,  \* the database: its transaction queue and its version table
    log,         \* what the DbUpdater did so far, in order
    caller       \* the calls made on the DbUpdater and the latest of them

\* the variables of the DbUpdater
updaterVars == <<updater, connection, log, caller>>

\* the variables that no method of DbQuery changes
outsideQuery == <<clause, updaterVars>>

vars == <<_sql, _sqlValues, fresh, search, given, calls, first, last, outsideQuery>>

\* a SqlClause as the caller holds it: the text passed to the constructor,
\* the value list passed to it or to a later values call, whether the
\* constructor threw, the fields _sqlClause and _sqlValues, and the
\* argument and the result (threw or not) of the latest set call
Clause(made, sqlClause, sqlValues, threw, text, values, setArg, setThrew) ==
    [made |-> made, sqlClause |-> sqlClause, sqlValues |-> sqlValues, threw |-> threw,
     _sqlClause |-> text, _sqlValues |-> values, setArg |-> setArg, setThrew |-> setThrew]

NoClause == Clause(FALSE, Undef, Undef, FALSE, <<>>, <<>>, Undef, FALSE)

\* the record of a call: the method, whether the DbQuery was fresh, the
\* fields of the DbQuery and the search object before it, and its outcome
Call(method, wasFresh, sqlBefore, valuesBefore, searchBefore, out) ==
    [method |-> method, fresh |-> wasFresh, sqlBefore |-> sqlBefore,
     valuesBefore |-> valuesBefore, searchBefore |-> searchBefore,
     ok |-> out.ok, where |-> out.where, sql |-> out.sql, sqlValues |-> out.sqlValues]

NoCall ==
    Call("none", TRUE, <<>>, <<>>, Search(Undef, Undef, Undef, Undef, Undef),
         Outcome(FALSE, <<>>, <<>>, <<>>, Search(Undef, Undef, Undef, Undef, Undef)))

\* ------------------------------------------------------------------------
\* DbUpdater: the object, its connection and what it did
\* ------------------------------------------------------------------------
STATUS_INIT == 0
STATUS_READY == 2
STATUS_DONE == 3

\* a function the updater holds: an init, update or ready function of the
\* caller (numbered by kind) or the internal function of an init run that
\* inserts the version ("version"); version is 0 but for update functions
Func(kind, id, version) == [kind |-> kind, id |-> id, version |-> version]

NoFunc == Func("none", 0, 0)

\* the options with which the updater is constructed
Options(errorFunc, triggerEventsOnReExecute, recallReadyFunctionsOnReExecute) ==
    [errorFunc |-> errorFunc,
     triggerEventsOnReExecute |-> triggerEventsOnReExecute,
     recallReadyFunctionsOnReExecute |-> recallReadyFunctionsOnReExecute]

\* new DbUpdater($db, options)
NewDbUpdater(options) ==
    [_options |-> options,
     _status |-> STATUS_INIT,
     _alreadyExecuted |-> FALSE,
     _initFuncs |-> <<>>,
     _initVersionFuncAdded |-> FALSE,
     _updateFuncs |-> <<>>,
     _readyFuncs |-> <<>>,
     _reExecFunction |-> FALSE,
     _runFuncs |-> <<>>,
     _runFuncsMax |-> 0,
     _runTick |-> 0]

\* a transaction of the connection: the version query of execute (kind
\* "query") or the transaction of a function (kind "func") with the callback
\* ("ready" or "done") to call after the last function; called tells
\* whether the transaction callback has run
Transaction(kind, func, readyCallback, called) ==
    [kind |-> kind, func |-> func, readyCallback |-> readyCallback, called |-> called]

\* the database behind the connection: the transactions it has queued and
\* the versions its version table holds
Connection(queue, versions) == [queue |-> queue, versions |-> versions]

\* one thing the updater did: a call of reExecute, with value 1 when it was
\* given a function ("reExecute"), a run started by execute ("started"), a
\* transaction opened ("transaction"), the version its version query found,
\* with the init function registered last and the number of update functions
\* registered then ("found"), an event triggered ("trigger"), a function run ("run"), the end of its transaction ("success", "error"), a
\* version inserted ("version"), an error handed to options.errorFunc or
\* thrown ("errorFunc", "threw"), the callback of reExecute ("reExecFunction")
Did(e, name, func, value, max) ==
    [e |-> e, name |-> name, func |-> func, value |-> value, max |-> max]

\* the updater u with its connection c and its log l, and the result r of
\* the call that led to it: "registered", "skipped" (no function given),
\* "started", "ignored" (returned at once) or "threw"
World(u, c, l, r) == [u |-> u, c |-> c, l |-> l, r |-> r]

\* the calls of the caller: how many add* and execute / reExecute calls were
\* made, and the method and the result of the latest call
Caller(adds, executes, method, result) ==
    [adds |-> adds, executes |-> executes, method |-> method, result |-> result]

\* new $.DbQuery(TableName), and no SqlClause
InitQuery ==
    /\ _sql = <<>>
    /\ _sqlValues = <<>>
    /\ fresh = TRUE
    /\ search = <<>>
    /\ given = <<>>
    /\ calls = 0
    /\ first = NoCall
    /\ last = NoCall
    /\ clause = NoClause

\* a DbQuery, and a DbUpdater with the default options on an empty database
Init ==
    /\ InitQuery
    /\ updater = NewDbUpdater(Options(FALSE, FALSE, FALSE))
    /\ connection = Connection(<<>>, {})
    /\ log = <<>>
    /\ caller = Caller(0, 0, "none", "none")

\* the caller constructs a new DbQuery for the table
Construct ==
    /\ ~fresh
    /\ _sql' = <<>>
    /\ _sqlValues' = <<>>
    /\ fresh' = TRUE
    /\ UNCHANGED <<search, given, calls, first, last, outsideQuery>>

\* the caller runs an example of the class documentation: prepareCount
PrepareExample ==
    /\ search = <<>>
    /\ fresh
    /\ \E s \in ExampleSearches :
          LET out == prepareCount(_sql, _sqlValues, s)
          IN  /\ _sql' = out.sql
              /\ _sqlValues' = out.sqlValues
    /\ fresh' = FALSE
    /\ UNCHANGED <<search, given, calls, first, last, outsideQuery>>

\* the caller builds its search object
NewSearch ==
    /\ search = <<>>
    /\ \E s \in Searches :
          /\ search' = <<s>>
          /\ given' = <<s>>
    /\ UNCHANGED <<_sql, _sqlValues, fresh, calls, first, last, outsideQuery>>

\* Prepared with a value list that grows with every call
PreparedKeepingValues(method, out) ==
    LET c == Call(method, fresh, _sql, _sqlValues, search[1], out)
    IN  /\ _sql' = out.sql
        /\ _sqlValues' = _sqlValues \o out.sqlValues
        /\ fresh' = FALSE
        /\ search' = <<out.search>>
        /\ calls' = calls + 1
        /\ first' = IF calls = 0 THEN c ELSE first
        /\ last' = c
        /\ UNCHANGED <<given, outsideQuery>>

\* the effect of a prepare* call with outcome out
Prepared(method, out) ==
    LET c == Call(method, fresh, _sql, _sqlValues, search[1], out)
    IN  /\ _sql' = out.sql
        /\ _sqlValues' = out.sqlValues
        /\ fresh' = FALSE
        /\ search' = <<out.search>>
        /\ calls' = calls + 1
        /\ first' = IF calls = 0 THEN c ELSE first
        /\ last' = c
        /\ UNCHANGED <<given, outsideQuery>>

PrepareSearch ==
    /\ search # <<>>
    /\ calls < MaxCalls
    /\ Prepared("prepareSearch", prepareSearch(_sql, _sqlValues, search[1]))

PrepareCount ==
    /\ search # <<>>
    /\ calls < MaxCalls
    /\ Prepared("prepareCount", prepareCount(_sql, _sqlValues, search[1]))

PrepareDeleteSearch ==
    /\ search # <<>>
    /\ calls < MaxCalls
    /\ Prepared("prepareDeleteSearch", prepareDeleteSearch(_sql, _sqlValues, search[1]))

Next ==
    \/ Construct
    \/ PrepareExample
    \/ NewSearch
    \/ PrepareSearch
    \/ PrepareCount
    \/ PrepareDeleteSearch

Spec == Init /\ [][Next]_vars

\* ------------------------------------------------------------------------
\* SqlClause: construction and accessors
\* ------------------------------------------------------------------------
\* what a caller may pass as text of a clause
ClauseTexts ==
    {Undef, Null, Num(0), Num(5), Bool(FALSE), Bool(TRUE), Arr(<<>>),
     Str(<<>>), Str(<<"a", "=", "?">>), Str(<<"b", " ", "I", "S", " ", "N", "U", "L", "L">>)}

\* what a caller may pass as values of a clause
ClauseValueLists ==
    {Undef, Null, Arr(<<>>), Arr(<<Num(5)>>), Arr(<<Num(5), Num(6)>>), Str(<<"x">>)}

\* the variables of the DbQuery
queryVars == <<_sql, _sqlValues, fresh, search, given, calls, first, last>>

\* new $.SqlClause(sqlClause, sqlValues)
NewSqlClause ==
    /\ ~clause.made
    /\ \E sqlClause \in ClauseTexts, sqlValues \in ClauseValueLists :
          clause' = Clause(TRUE, sqlClause, sqlValues,
                           ~SqlClause(sqlClause, sqlValues).ok,
                           SqlClause(sqlClause, sqlValues).obj.v.text,
                           SqlClause(sqlClause, sqlValues).obj.v.values,
                           Undef, FALSE)
    /\ UNCHANGED <<queryVars, updaterVars>>

\* clause.set(sqlClause) on a constructed clause
SetSqlClause ==
    /\ clause.made
    /\ ~clause.threw
    /\ \E sqlClause \in ClauseTexts :
          clause' = [clause EXCEPT
                        !._sqlClause = IF SqlClause_set(sqlClause).ok
                                       THEN SqlClause_set(sqlClause).text ELSE @,
                        !.setArg = sqlClause,
                        !.setThrew = ~SqlClause_set(sqlClause).ok]
    /\ UNCHANGED <<queryVars, updaterVars>>

\* clause.values(newValues) on a constructed clause
SetSqlValues ==
    /\ clause.made
    /\ ~clause.threw
    /\ \E newValues \in ClauseValueLists :
          clause' = [clause EXCEPT
                        !._sqlValues = SqlClause_values(@, newValues),
                        !.sqlValues = IF isArray(newValues) THEN newValues ELSE @]
    /\ UNCHANGED <<queryVars, updaterVars>>

NextClause ==
    \/ NewSqlClause
    \/ SetSqlClause
    \/ SetSqlValues

SpecClause == Init /\ [][NextClause]_vars

\* ------------------------------------------------------------------------
\* DbUpdater: methods, as the world after the call for the world before it
\* ------------------------------------------------------------------------
MaxAdds == 3
MaxExecutes == 3

\* the versions a caller passes to addUpdateFunction (0: none)
Versions == {0, 3}

\* the world w after the updater did something
Logged(w, did) == [w EXCEPT !.l = Append(@, did)]

\* the world w after a call of the caller with the result r
Returned(w, r) == [w EXCEPT !.r = r]

\* $.trigger(this, event), which a run after the first one makes only with
\* the option triggerEventsOnReExecute
Triggered(w, name, value, max) ==
    IF ~w.u._alreadyExecuted \/ w.u._options.triggerEventsOnReExecute
    THEN Logged(w, Did("trigger", name, NoFunc, value, max))
    ELSE w

\* _getUpdateFuncVersionMax()
_getUpdateFuncVersionMax(u) ==
    IF Len(u._updateFuncs) > 0 THEN u._updateFuncs[Len(u._updateFuncs)].version ELSE 1

\* addInitFunction(func); isFunction tells whether func is a function
addInitFunction(w, isFunction) ==
    IF w.u._status > STATUS_INIT THEN Returned(w, "threw")
    ELSE IF isFunction
        THEN Returned([w EXCEPT !.u._initFuncs = Append(@, Func("init", Len(@) + 1, 0))],
                      "registered")
    ELSE Returned(w, "skipped")

\* the version addUpdateFunction(vers, func) gives the function
UpdateVersion(u, vers) == IF vers > 0 THEN vers ELSE _getUpdateFuncVersionMax(u) + 1

\* addUpdateFunction(vers, func) without the comparison with the previous version
addUpdateFunctionAnyVersion(w, vers, isFunction) ==
    IF w.u._status > STATUS_INIT THEN Returned(w, "threw")
    ELSE IF isFunction
        THEN Returned([w EXCEPT !.u._updateFuncs =
                                    Append(@, Func("update", Len(@) + 1, UpdateVersion(w.u, vers)))],
                      "registered")
    ELSE Returned(w, "skipped")

\* addUpdateFunction(vers, func)
addUpdateFunction(w, vers, isFunction) ==
    IF w.u._status > STATUS_INIT THEN Returned(w, "threw")
    ELSE IF /\ Len(w.u._updateFuncs) > 0
            /\ UpdateVersion(w.u, vers) <= w.u._updateFuncs[Len(w.u._updateFuncs)].version
        THEN Returned(w, "threw")
    ELSE IF isFunction
        THEN Returned([w EXCEPT !.u._updateFuncs =
                                    Append(@, Func("update", Len(@) + 1, UpdateVersion(w.u, vers)))],
                      "registered")
    ELSE Returned(w, "skipped")

\* addReadyFunction(func)
addReadyFunction(w, isFunction) ==
    IF w.u._status > STATUS_INIT THEN Returned(w, "threw")
    ELSE IF isFunction
        THEN Returned([w EXCEPT !.u._readyFuncs = Append(@, Func("ready", Len(@) + 1, 0))],
                      "registered")
    ELSE Returned(w, "skipped")

\* this._connection.transaction(...): the world with one more transaction
Opened(w, transaction) ==
    Logged([w EXCEPT !.c.queue = Append(@, transaction)],
           Did("transaction", transaction.kind, transaction.func, 0, 0))

\* execute()
execute(w) ==
    IF w.u._status > STATUS_INIT THEN Returned(w, "ignored")
    ELSE IF Len(w.u._initFuncs) = 0 /\ Len(w.u._updateFuncs) = 0
        \* this._readyFunc is undefined: reading its length is a TypeError
        THEN Returned(w, "threw")
    ELSE Returned(Opened(Logged(w, Did("started", "execute", NoFunc, 0, 0)),
                         Transaction("query", NoFunc, "ready", FALSE)),
                  "started")

\* reExecute(readyCallback)
reExecute(w, isFunction) ==
    IF ~w.u._alreadyExecuted THEN Returned(w, "threw")
    ELSE execute(Logged([w EXCEPT !.u._status = STATUS_INIT,
                                  !.u._reExecFunction = isFunction],
                        Did("reExecute", "reExecute", NoFunc, IF isFunction THEN 1 ELSE 0, 0)))

\* the call stack _prepareExecution(version, functions) builds
Stack(version, functions) ==
    IF version <= 0 THEN [t \in 1..Len(functions) |-> [functions[t] EXCEPT !.version = 0]]
    ELSE SelectSeq(functions, LAMBDA f : version < f.version)

\* _prepareExecution(version, functions)
_prepareExecution(w, version, functions) ==
    [w EXCEPT !.u._runFuncs = Stack(version, functions),
              !.u._runFuncsMax = IF @ = 0
                                 THEN Len(Stack(version, functions)) + Len(w.u._readyFuncs)
                                 ELSE @]

\* the callback _prepareReadyCallbacks hands to _nextExecution
DoneCallback(w) ==
    IF w.u._reExecFunction
    THEN Logged([Triggered(w, "done", 0, 0) EXCEPT !.u._status = STATUS_DONE,
                                                   !.u._alreadyExecuted = TRUE],
                Did("reExecFunction", "done", NoFunc, 0, 0))
    ELSE [Triggered(w, "done", 0, 0) EXCEPT !.u._status = STATUS_DONE,
                                            !.u._alreadyExecuted = TRUE]

\* _nextExecution(readyCallback) with a call stack that holds a function
NextFunction(w, readyCallback) ==
    Opened([w EXCEPT !.u._runFuncs = Tail(@)],
           Transaction("func", Head(w.u._runFuncs), readyCallback, FALSE))

\* _prepareReadyCallbacks after the ready functions are on the call stack
ReadyPrepared(w) ==
    IF w.u._runFuncs # <<>> THEN NextFunction(w, "done") ELSE DoneCallback(w)

\* _prepareReadyCallbacks()
_prepareReadyCallbacks(w) ==
    ReadyPrepared(
        _prepareExecution(Triggered([w EXCEPT !.u._status = STATUS_READY], "ready", 0, 0),
                          0,
                          IF \/ ~w.u._alreadyExecuted
                             \/ w.u._options.recallReadyFunctionsOnReExecute
                          THEN w.u._readyFuncs ELSE <<>>))

\* _nextExecution(readyCallback)
_nextExecution(w, readyCallback) ==
    IF w.u._runFuncs # <<>> THEN NextFunction(w, readyCallback)
    ELSE IF readyCallback = "ready" THEN _prepareReadyCallbacks(w)
    ELSE DoneCallback(w)

\* _startExecution(readyCallback)
_startExecution(w, readyCallback) ==
    _nextExecution(Triggered(w, "execute", 0, 0), readyCallback)

\* _prepareInitExecution()
_prepareInitExecution(w) ==
    IF w.u._initVersionFuncAdded
        THEN _startExecution(_prepareExecution(w, 0, w.u._initFuncs), "ready")
    ELSE IF w.u._status > STATUS_INIT
        THEN Logged(w, Did("threw", "addInitFunction", NoFunc, 0, 0))
    ELSE _startExecution(
             _prepareExecution([w EXCEPT !.u._initFuncs = Append(@, Func("version", 0, 0)),
                                         !.u._initVersionFuncAdded = TRUE],
                               0, Append(w.u._initFuncs, Func("version", 0, 0))),
             "ready")

\* _prepareUpdateExecution(version)
_prepareUpdateExecution(w, version) ==
    _startExecution(_prepareExecution(w, version, w.u._updateFuncs), "ready")

\* SELECT MAX(version) on the version table, 0 when it holds no version
MaxVersion(versions) ==
    IF versions = {} THEN 0 ELSE CHOOSE v \in versions : \A x \in versions : x <= v

\* the version query of execute has left the queue and found the version,
\* with this init function registered last and so many update functions
Found(w, version) ==
    Logged([w EXCEPT !.c.queue = Tail(@)],
           Did("found", "version",
               IF w.u._initFuncs = <<>> THEN NoFunc ELSE w.u._initFuncs[Len(w.u._initFuncs)],
               version, Len(w.u._updateFuncs)))

\* the callbacks of the version query of execute (lines 324-353)
VersionCallback(w) ==
    IF MaxVersion(w.c.versions) > 0
    THEN _prepareUpdateExecution(Found(w, MaxVersion(w.c.versions)), MaxVersion(w.c.versions))
    ELSE _prepareInitExecution(Found(w, 0))

\* the transaction callback of _nextExecution (lines 467-473) for the first
\* transaction of the queue: the progress event and the call of the function
FunctionCallback(w) ==
    Logged(
        IF ~w.u._alreadyExecuted \/ w.u._options.triggerEventsOnReExecute
        THEN Logged([w EXCEPT !.u._runTick = @ + 1,
                              !.c.queue[1].called = TRUE,
                              !.c.queue[1].func.version =
                                  IF w.c.queue[1].func.kind = "version"
                                  THEN _getUpdateFuncVersionMax(w.u) ELSE @],
                    Did("trigger", "progress", NoFunc, w.u._runTick + 1, w.u._runFuncsMax))
        ELSE [w EXCEPT !.c.queue[1].called = TRUE,
                       !.c.queue[1].func.version =
                           IF w.c.queue[1].func.kind = "version"
                           THEN _getUpdateFuncVersionMax(w.u) ELSE @],
        Did("run", w.c.queue[1].func.kind, w.c.queue[1].func, 0, 0))

\* _insertVersion(tx, version)
_insertVersion(w, version) ==
    Logged([w EXCEPT !.c.versions = @ \cup {version}], Did("version", "insert", NoFunc, version, 0))

\* the success callback of _nextExecution (lines 485-500) for the
\* transaction tx, which has left the queue
SuccessCallback(w, tx) ==
    _nextExecution(
        IF tx.func.version > 0
        THEN _insertVersion(Logged(w, Did("success", tx.func.kind, tx.func, 0, 0)), tx.func.version)
        ELSE Logged(w, Did("success", tx.func.kind, tx.func, 0, 0)),
        tx.readyCallback)

\* the error callback of _nextExecution (lines 475-483)
ErrorCallback(w, tx) ==
    Logged(Logged(w, Did("error", tx.func.kind, tx.func, 0, 0)),
           Did(IF w.u._options.errorFunc THEN "errorFunc" ELSE "threw",
               "transaction", tx.func, 0, 0))

\* ------------------------------------------------------------------------
\* DbUpdater: state machine
\* ------------------------------------------------------------------------
AddMethods == {"addInitFunction", "addUpdateFunction", "addReadyFunction"}

\* the world of the state
Now == World(updater, connection, log, "none")

\* the state becomes the world w
Becomes(w) ==
    /\ updater' = w.u
    /\ connection' = w.c
    /\ log' = w.l
    /\ UNCHANGED <<queryVars, clause>>

\* the caller has called the method, an add* method or not, and the state
\* becomes the world w
CallerCalled(method, w) ==
    /\ Becomes(w)
    /\ caller' = Caller(caller.adds + (IF method \in AddMethods THEN 1 ELSE 0),
                        caller.executes + (IF method \in AddMethods THEN 0 ELSE 1),
                        method, w.r)

\* new DbUpdater($db, options), with the default options or with errorFunc
\* and the two options for a run after the first one, on a database whose
\* version table is empty or holds version 2
InitUpdater ==
    /\ InitQuery
    /\ \E on \in BOOLEAN : updater = NewDbUpdater(Options(on, on, on))
    /\ \E versions \in {{}, {2}} : connection = Connection(<<>>, versions)
    /\ log = <<>>
    /\ caller = Caller(0, 0, "none", "none")

AddInitFunction ==
    /\ caller.adds < MaxAdds
    /\ \E isFunction \in BOOLEAN :
          CallerCalled("addInitFunction", addInitFunction(Now, isFunction))

AddUpdateFunction ==
    /\ caller.adds < MaxAdds
    /\ \E vers \in Versions :
          CallerCalled("addUpdateFunction", addUpdateFunction(Now, vers, TRUE))

AddReadyFunction ==
    /\ caller.adds < MaxAdds
    /\ CallerCalled("addReadyFunction", addReadyFunction(Now, TRUE))

Execute ==
    /\ caller.executes < MaxExecutes
    /\ CallerCalled("execute", execute(Now))

ReExecute ==
    /\ caller.executes < MaxExecutes
    /\ \E isFunction \in BOOLEAN : CallerCalled("reExecute", reExecute(Now, isFunction))

\* the database runs the version query of the first transaction
VersionQuery ==
    /\ connection.queue # <<>>
    /\ Head(connection.queue).kind = "query"
    /\ Becomes(VersionCallback(Now))
    /\ UNCHANGED caller

\* the database calls the transaction callback of the first transaction
RunFunction ==
    /\ connection.queue # <<>>
    /\ Head(connection.queue).kind = "func"
    /\ ~Head(connection.queue).called
    /\ Becomes(FunctionCallback(Now))
    /\ UNCHANGED caller

\* the first transaction succeeds
TransactionSuccess ==
    /\ connection.queue # <<>>
    /\ Head(connection.queue).called
    /\ Becomes(SuccessCallback([Now EXCEPT !.c.queue = Tail(@)], Head(connection.queue)))
    /\ UNCHANGED caller

\* the first transaction fails and is rolled back
TransactionError ==
    /\ connection.queue # <<>>
    /\ Head(connection.queue).called
    /\ Becomes(ErrorCallback([Now EXCEPT !.c.queue = Tail(@)], Head(connection.queue)))
    /\ UNCHANGED caller

NextUpdater ==
    \/ AddInitFunction
    \/ AddUpdateFunction
    \/ AddReadyFunction
    \/ Execute
    \/ ReExecute
    \/ VersionQuery
    \/ RunFunction
    \/ TransactionSuccess
    \/ TransactionError

SpecUpdater == InitUpdater /\ [][NextUpdater]_vars

\* the steps of an updater all of whose transactions succeed and on which
\* the caller never calls reExecute()
NextSucceeding ==
    \/ AddInitFunction
    \/ AddUpdateFunction
    \/ AddReadyFunction
    \/ Execute
    \/ VersionQuery
    \/ RunFunction
    \/ TransactionSuccess

\* the database runs every transaction it has queued: the version query,
\* the transaction callback and the success callback of the first one
SpecUpdaterLive ==
    /\ InitUpdater
    /\ [][NextSucceeding]_vars
    /\ WF_vars(VersionQuery)
    /\ WF_vars(RunFunction)
    /\ WF_vars(TransactionSuccess)

\* the caller registers functions and never calls execute()
NextAdds ==
    \/ AddInitFunction
    \/ AddUpdateFunction
    \/ AddReadyFunction

SpecAdds == InitUpdater /\ [][NextAdds]_vars

\* ------------------------------------------------------------------------
\* DbQuery: search, count and deleteSearch with their transactions
\* ------------------------------------------------------------------------
\* the search objects of the calls: one, two and no predicate, and one
\* whose second predicate makes the build fail
ExecuteSearches ==
    {Search(Arr(f), Undef, Undef, Undef, Undef) :
        f \in { <<P(<<"a">>, <<"=">>, Num(1))>>,
                <<P(<<"b">>, <<"=">>, Str(<<"x">>)), P(<<"a">>, <<"=">>, Num(2))>>,
                <<>>,
                <<P(<<"b">>, <<"=">>, Num(3)), P(<<"a">>, <<"F", "O", "O">>, Num(1))>> }}

\* what a caller passes to search and count: a search object, a filter
\* array or nothing
SearchArguments == ExecuteSearches \cup {Arr(<<P(<<"a">>, <<"=">>, Num(5))>>), Undef}

\* a call of the method with the outcome out has opened a transaction of
\* the kind ("none": no transaction) unless it threw
QueryCalled(method, kind, out) ==
    /\ calls < MaxCalls
    /\ _sql' = out.sql
    /\ _sqlValues' = out.sqlValues
    /\ fresh' = FALSE
    /\ calls' = calls + 1
    /\ log' = Append(log, Ran("call", method, out.ok, out.sql, out.sqlValues, Len(log) + 1))
    /\ connection' = IF out.ok /\ kind # "none"
                     THEN [connection EXCEPT !.queue = Append(@, QueryTransaction(kind, Len(log) + 1))]
                     ELSE connection
    /\ UNCHANGED <<search, given, first, last, clause, updater, caller>>

SearchCall ==
    \E arg \in SearchArguments :
        QueryCalled("search", "execute", DbQuery_search(_sql, _sqlValues, arg))

CountCall ==
    \E arg \in SearchArguments :
        QueryCalled("count", "executeOneValue", DbQuery_count(_sql, _sqlValues, arg))

DeleteSearchCall ==
    \E arg \in ExecuteSearches :
        QueryCalled("deleteSearch", "execute", DbQuery_deleteSearch(_sql, _sqlValues, arg))

\* a prepare* call, which opens no transaction
PrepareCall ==
    \E arg \in ExecuteSearches :
        \/ QueryCalled("prepareSearch", "none", prepareSearch(_sql, _sqlValues, arg))
        \/ QueryCalled("prepareCount", "none", prepareCount(_sql, _sqlValues, arg))
        \/ QueryCalled("prepareDeleteSearch", "none", prepareDeleteSearch(_sql, _sqlValues, arg))

\* the database calls the transaction callback of the first transaction
TransactionCallback ==
    /\ connection.queue # <<>>
    /\ log' = Append(log, executeInTransaction(log, _sql, _sqlValues, Head(connection.queue)))
    /\ connection' = [connection EXCEPT !.queue = Tail(@)]
    /\ UNCHANGED <<queryVars, clause, updater, caller>>

NextExecute ==
    \/ SearchCall
    \/ CountCall
    \/ DeleteSearchCall
    \/ PrepareCall
    \/ TransactionCallback

SpecExecute == Init /\ [][NextExecute]_vars

\* ------------------------------------------------------------------------
\* Properties
\* ------------------------------------------------------------------------
\* a call has been recorded
Called == last.method # "none"

\* the methods whose outcome is the outcome of _buildSqlFromFilterArray
CompileOnly == {"prepareCount", "prepareDeleteSearch"}

\* the number of characters c in the text s
CountChar(s, c) == Cardinality({i \in 1..Len(s) : s[i] = c})

\* the filter is an array whose entries are all arrays
IsCanonical(filter) ==
    isArray(filter) /\ \A i \in 1..Len(filter.v) : isArray(filter.v[i])

\* the filter holds a SqlClause, as an entry or inside one
HasClause(filter) ==
    /\ isArray(filter)
    /\ \E i \in 1..Len(filter.v) :
          \/ isSqlClause(filter.v[i])
          \/ /\ isArray(filter.v[i])
             /\ \E j \in 1..Len(filter.v[i].v) : isSqlClause(filter.v[i].v[j])

\* the entry is [column, operator, value, ...] with a column name
IsPredicate(e) ==
    /\ isArray(e)
    /\ Len(e.v) >= 3
    /\ isString(e.v[1])
    /\ e.v[1].v \notin {<<"(">>, <<")">>, <<>>}

\* the operator of a predicate as the catalog spells it
OperatorToken(e) == toUpperCase(trim(e.v[2].v))

\* the numbers of the entries' values, in order, for values that are numbers
\* or arrays of numbers
RECURSIVE NumbersFrom(_, _)
NumbersFrom(entries, i) ==
    IF i > Len(entries) THEN <<>>
    ELSE (IF entries[i].v[3].k = "num" THEN <<entries[i].v[3]>> ELSE entries[i].v[3].v)
         \o NumbersFrom(entries, i + 1)

\* every entry is a predicate whose value is a number or an array of numbers
NumbersOnly(filter) ==
    /\ IsCanonical(filter)
    /\ \A i \in 1..Len(filter.v) :
          /\ IsPredicate(filter.v[i])
          /\ \/ filter.v[i].v[3].k = "num"
             \/ /\ isArray(filter.v[i].v[3])
                /\ \A j \in 1..Len(filter.v[i].v[3].v) : filter.v[i].v[3].v[j].k = "num"

\* C1: after every successful build of a filter holding no SqlClause, the
\* WHERE fragment has as many placeholders as getValues() has values, and
\* the values of number-valued predicates are the callers' numbers in order
C1_PlaceholdersMatchValues ==
    (Called /\ last.ok /\ ~HasClause(last.searchBefore.filter)) =>
        /\ CountChar(last.where, "?") = Len(last.sqlValues)
        /\ NumbersOnly(last.searchBefore.filter) =>
              last.sqlValues = NumbersFrom(last.searchBefore.filter.v, 1)

\* C2: a prepare* call that throws leaves getSql() and getValues() as they
\* were before the call
C2_FailedCallKeepsQuery ==
    (Called /\ ~last.ok) =>
        /\ last.sql = last.sqlBefore
        /\ last.sqlValues = last.valuesBefore

\* C3: building the same canonical search object a second time, each time
\* with a fresh DbQuery and the same method, gives the same statement and
\* the same values as the first time
C3_SameResultOnFreshQuery ==
    (/\ calls >= 2
     /\ first.fresh /\ last.fresh
     /\ first.method = last.method
     /\ IsCanonical(given[1].filter)
     /\ first.ok) =>
        /\ last.ok
        /\ last.sql = first.sql
        /\ last.sqlValues = first.sqlValues

\* C4: after a prepare* call returns, the caller's search.filter and every
\* entry in it are what they were before the call
C4_FilterUnchanged ==
    (Called /\ last.ok) => search[1].filter = last.searchBefore.filter

\* the operator of the predicate is one of the array-valued operators
HasArrayOperator(e) ==
    isString(e.v[2]) /\ OperatorToken(e) \in DOMAIN SQL_OPERATORS_ARRAY

\* the entry with a string value of an array-valued operator replaced by
\* the array of its comma-separated pieces
PiecesEntry(e) ==
    IF IsPredicate(e) /\ HasArrayOperator(e) /\ isString(e.v[3])
    THEN Arr([e.v EXCEPT ![3] = SplitValue(e.v[3])])
    ELSE e

\* the filter with PiecesEntry applied to its entries
PiecesFilter(filter) ==
    IF IsCanonical(filter)
    THEN Arr([i \in 1..Len(filter.v) |-> PiecesEntry(filter.v[i])])
    ELSE PiecesEntry(filter)

\* the recorded call has the outcome alt of a compile
SameCompile(alt, call) ==
    /\ call.ok = alt.ok
    /\ call.ok => (call.where = alt.ret /\ call.sqlValues = alt.sqlValues)

\* C5: a filter with string values for array-valued operators compiles
\* exactly like the filter with the arrays of their pieces in their place;
\* ['b','BETWEEN','5,6'] gives "(b BETWEEN ? AND ?)" with values ['5','6']
C5_StringLikeArrayOfPieces ==
    (Called /\ last.method \in CompileOnly /\ isArray(last.searchBefore.filter)) =>
        /\ SameCompile(
               _buildSqlFromFilterArray(
                   [last.searchBefore EXCEPT !.filter = PiecesFilter(last.searchBefore.filter)]),
               last)
        /\ last.searchBefore.filter = Arr(<<P(<<"b">>, <<"B", "E", "T", "W", "E", "E", "N">>, Str(<<"5", ",", "6">>))>>) =>
              /\ last.where = <<"(", "b", " ", "B", "E", "T", "W", "E", "E", "N", " ", "?", " ", "A", "N", "D", " ", "?", ")">>
              /\ last.sqlValues = <<Str(<<"5">>), Str(<<"6">>)>>

\* the entry is a BETWEEN predicate with a string or an array as value
IsBetween(e) ==
    /\ IsPredicate(e)
    /\ isString(e.v[2])
    /\ OperatorToken(e) = <<"B", "E", "T", "W", "E", "E", "N">>
    /\ e.v[3].k \in {"str", "arr"}

\* the elements the value of a BETWEEN predicate resolves to
Resolved(e) == IF isString(e.v[3]) THEN SplitValue(e.v[3]).v ELSE e.v[3].v

\* C6: a BETWEEN predicate whose value resolves to other than two elements
\* makes the build fail; one that resolves to two elements emits "? AND ?"
\* and pushes the two elements in order
C6_BetweenTakesTwo ==
    (Called /\ last.method \in CompileOnly /\ IsCanonical(last.searchBefore.filter)) =>
        /\ (\E i \in 1..Len(last.searchBefore.filter.v) :
               /\ IsBetween(last.searchBefore.filter.v[i])
               /\ Len(Resolved(last.searchBefore.filter.v[i])) # 2) => ~last.ok
        /\ (/\ Len(last.searchBefore.filter.v) = 1
            /\ IsBetween(last.searchBefore.filter.v[1])
            /\ Len(Resolved(last.searchBefore.filter.v[1])) = 2) =>
               /\ last.ok
               /\ last.where = <<"(">> \o last.searchBefore.filter.v[1].v[1].v
                                  \o <<" ", "B", "E", "T", "W", "E", "E", "N", " ", "?", " ", "A", "N", "D", " ", "?", ")">>
               /\ last.sqlValues = Resolved(last.searchBefore.filter.v[1])

\* the predicate has a logic operator of its own that is none of
\* AND, OR, XOR, NOT in any case
HasUnknownLogic(e) ==
    /\ IsPredicate(e)
    /\ Len(e.v) >= 4
    /\ isString(e.v[4])
    /\ e.v[4].v # <<>>
    /\ toUpperCase(e.v[4].v) \notin DOMAIN SQL_OPERATORS_LOGIC

\* C7: a predicate whose own logic operator is none of AND, OR, XOR, NOT
\* makes the build fail
C7_UnknownLogicFails ==
    (/\ Called
     /\ IsCanonical(last.searchBefore.filter)
     /\ \E i \in 1..Len(last.searchBefore.filter.v) :
           HasUnknownLogic(last.searchBefore.filter.v[i])) => ~last.ok

\* the entry is [column, '=' or '!=', number]
IsPlain(e) ==
    /\ IsPredicate(e)
    /\ Len(e.v) = 3
    /\ e.v[2] \in {Str(<<"=">>), Str(<<"!", "=">>)}
    /\ e.v[3].k = "num"

\* the filter is a non-empty array of plain predicates
AllPlain(filter) ==
    /\ IsCanonical(filter)
    /\ Len(filter.v) > 0
    /\ \A i \in 1..Len(filter.v) : IsPlain(filter.v[i])

\* "(column operator ?)"
PlainText(e) == <<"(">> \o e.v[1].v \o <<" ">> \o e.v[2].v \o <<" ", "?", ")">>

\* the plain predicates from the i-th on, each but the first of the filter
\* preceded by " X "
RECURSIVE PlainWhere(_, _, _)
PlainWhere(entries, i, X) ==
    IF i > Len(entries) THEN <<>>
    ELSE (IF i = 1 THEN <<>> ELSE <<" ">> \o X \o <<" ">>)
         \o PlainText(entries[i]) \o PlainWhere(entries, i + 1, X)

\* search.operator is a non-empty string
GivenOperator(s) == isString(s.operator) /\ s.operator.v # <<>>

\* search.operator is omitted or the empty string
NoOperator(s) == s.operator \in {Undef, Str(<<>>)}

\* search.operator is a non-empty string that is none of AND, OR, XOR, NOT
UnknownOperator(s) ==
    GivenOperator(s) /\ toUpperCase(s.operator.v) \notin DOMAIN SQL_OPERATORS_LOGIC

\* the default connective the claim expects for the search object
ExpectedDefault(s) == IF NoOperator(s) THEN <<"A", "N", "D">> ELSE toUpperCase(s.operator.v)

\* an omitted or empty search.operator means AND, and AND, OR, XOR, NOT in
\* any case are accepted and emitted in upper case between plain predicates
DefaultNormalized ==
    (/\ Called
     /\ last.method \in CompileOnly
     /\ AllPlain(last.searchBefore.filter)
     /\ (NoOperator(last.searchBefore) \/ GivenOperator(last.searchBefore))
     /\ ~UnknownOperator(last.searchBefore)) =>
        /\ last.ok
        /\ last.where = PlainWhere(last.searchBefore.filter.v, 1,
                                   ExpectedDefault(last.searchBefore))
        /\ last.sqlValues = NumbersFrom(last.searchBefore.filter.v, 1)

InCatalog(e) ==
    /\ isString(e.v[2])
    /\ OperatorToken(e) \in (DOMAIN SQL_OPERATORS \cup DOMAIN SQL_OPERATORS_ARRAY)

\* the text s starts with the text p
StartsWith(s, p) == Len(s) >= Len(p) /\ SubSeq(s, 1, Len(p)) = p

\* C9: a predicate whose operator is in neither catalog makes the build
\* fail, and a predicate whose operator is in a catalog is emitted with the
\* upper-case catalog token after its column
C9_OperatorInCatalog ==
    (Called /\ last.method \in CompileOnly /\ IsCanonical(last.searchBefore.filter)) =>
        /\ (\E i \in 1..Len(last.searchBefore.filter.v) :
               /\ IsPredicate(last.searchBefore.filter.v[i])
               /\ ~InCatalog(last.searchBefore.filter.v[i])) => ~last.ok
        /\ (/\ last.ok
            /\ Len(last.searchBefore.filter.v) = 1
            /\ IsPredicate(last.searchBefore.filter.v[1])
            /\ InCatalog(last.searchBefore.filter.v[1])
            /\ ~Contains(OperatorToken(last.searchBefore.filter.v[1]), <<"I", "S", "N", "U", "L", "L">>)) =>
               StartsWith(last.where,
                          <<"(">> \o last.searchBefore.filter.v[1].v[1].v \o <<" ">>
                              \o OperatorToken(last.searchBefore.filter.v[1]) \o <<" ">>)

\* the predicate has a logic operator of its own
HasOwnLogic(e) == Len(e.v) >= 4 /\ isString(e.v[4]) /\ e.v[4].v # <<>>

\* the connective the claim expects before the predicate
ExpectedLogic(e, s) ==
    IF HasOwnLogic(e) THEN toUpperCase(e.v[4].v) ELSE ExpectedDefault(s)

\* the fragment and the values of the predicate compiled alone
Alone(e) == _buildSqlFromFilterArray(Search(Arr(<<e>>), Undef, Undef, Undef, Undef))

\* the fragment of the predicates from the i-th on, each but the first of
\* the filter preceded by its connective
RECURSIVE JoinedWhere(_, _, _)
JoinedWhere(entries, i, s) ==
    IF i > Len(entries) THEN <<>>
    ELSE (IF i = 1 THEN <<>> ELSE <<" ">> \o ExpectedLogic(entries[i], s) \o <<" ">>)
         \o Alone(entries[i]).ret \o JoinedWhere(entries, i + 1, s)

\* the values of the predicates from the i-th on
RECURSIVE JoinedValues(_, _)
JoinedValues(entries, i) ==
    IF i > Len(entries) THEN <<>>
    ELSE Alone(entries[i]).sqlValues \o JoinedValues(entries, i + 1)

\* the filter is an array of two or more predicates whose own logic
\* operators, where given, are among AND, OR, XOR, NOT
PredicatesOnly(filter) ==
    /\ IsCanonical(filter)
    /\ Len(filter.v) >= 2
    /\ \A i \in 1..Len(filter.v) :
          IsPredicate(filter.v[i]) /\ ~HasUnknownLogic(filter.v[i])

\* C10: the fragment of two or more predicates without brackets is the
\* parenthesized predicates in input order, the first without connective
\* and each later one preceded by " X ", X its own logic operator if given,
\* else the default; the values are the predicates' values in order
C10_PredicatesJoinedInOrder ==
    (/\ Called
     /\ last.method \in CompileOnly
     /\ last.ok
     /\ PredicatesOnly(last.searchBefore.filter)
     /\ ~UnknownOperator(last.searchBefore)) =>
        /\ last.where = JoinedWhere(last.searchBefore.filter.v, 1, last.searchBefore)
        /\ last.sqlValues = JoinedValues(last.searchBefore.filter.v, 1)

\* the entry is ['('], [')'] or one of them with a logic operator
IsBracket(e) ==
    isArray(e) /\ Len(e.v) >= 1 /\ e.v[1] \in {Str(<<"(">>), Str(<<")">>)}

\* the entry is [SqlClause] or [SqlClause, logic operator]
IsClauseEntry(e) == isArray(e) /\ Len(e.v) >= 1 /\ isSqlClause(e.v[1])

\* the bracket has a logic operator of its own
HasBracketLogic(e) == Len(e.v) >= 2 /\ isString(e.v[2]) /\ e.v[2].v # <<>>

\* the connective the claim expects before an opening bracket
BracketLogic(e, s) ==
    IF HasBracketLogic(e) THEN toUpperCase(e.v[2].v) ELSE ExpectedDefault(s)

\* the operator of the predicate is ISNULL or NOT ISNULL
IsNullTest(e) == isString(e.v[2]) /\ Contains(OperatorToken(e), <<"I", "S", "N", "U", "L", "L">>)

\* the group flag before the i-th entry: it is the first entry or follows
\* an opening bracket
FreshGroup(entries, i) == i = 1 \/ entries[i - 1].v[1] = Str(<<"(">>)

\* the filter is an array of brackets, predicates other than null tests
\* and SqlClause entries that open a group, with known logic operators
Grouped(filter) ==
    /\ IsCanonical(filter)
    /\ \A i \in 1..Len(filter.v) :
          \/ /\ IsBracket(filter.v[i])
             /\ HasBracketLogic(filter.v[i]) =>
                   toUpperCase(filter.v[i].v[2].v) \in DOMAIN SQL_OPERATORS_LOGIC
          \/ /\ IsPredicate(filter.v[i])
             /\ ~HasUnknownLogic(filter.v[i])
             /\ ~IsNullTest(filter.v[i])
          \/ IsClauseEntry(filter.v[i]) /\ FreshGroup(filter.v, i)

\* the filter has a bracket
HasBracket(filter) == \E i \in 1..Len(filter.v) : IsBracket(filter.v[i])

\* what the claim expects before the i-th entry
GroupConnective(entries, i, s) ==
    IF FreshGroup(entries, i) \/ entries[i].v[1] = Str(<<")">>) THEN <<>>
    ELSE IF entries[i].v[1] = Str(<<"(">>) THEN <<" ">> \o BracketLogic(entries[i], s)
    ELSE <<" ">> \o ExpectedLogic(entries[i], s) \o <<" ">>

\* the fragment of the entries from the i-th on: each bracket, predicate
\* or clause after the connective the group flag lets it have
RECURSIVE GroupWhere(_, _, _)
GroupWhere(entries, i, s) ==
    IF i > Len(entries) THEN <<>>
    ELSE GroupConnective(entries, i, s)
         \o (IF IsBracket(entries[i]) THEN entries[i].v[1].v ELSE Alone(entries[i]).ret)
         \o GroupWhere(entries, i + 1, s)

\* the documented filter with a group: (a = 1 AND b != 1) OR c IN (6,7,8,9)
GroupExample ==
    Arr(<<Arr(<<Str(<<"(">>)>>), P(<<"a">>, <<"=">>, Num(1)), P(<<"b">>, <<"!", "=">>, Num(1)),
          Arr(<<Str(<<")">>)>>),
          PL(<<"c">>, <<"I", "N">>, Arr(<<Num(6), Num(7), Num(8), Num(9)>>), <<"O", "R">>)>>)

\* C11: in every compiled fragment with brackets, predicates and clauses no
\* connective stands before the first entry or the first entry after an
\* opening bracket, an opening bracket elsewhere follows " " and its
\* connective (its own, else the default), a closing bracket has no
\* connective and the predicate after it has one; the documented filter
\* gives "((a = ?) AND (b != ?)) OR (c IN (?, ?, ?, ?))" with [1,1,6,7,8,9]
C11_GroupFlagGovernsConnectives ==
    (/\ Called
     /\ last.method \in CompileOnly
     /\ last.ok
     /\ Grouped(last.searchBefore.filter)
     /\ HasBracket(last.searchBefore.filter)
     /\ ~UnknownOperator(last.searchBefore)) =>
        /\ last.where = GroupWhere(last.searchBefore.filter.v, 1, last.searchBefore)
        /\ last.sqlValues = JoinedValues(last.searchBefore.filter.v, 1)
        /\ last.searchBefore.filter = GroupExample =>
              /\ last.where = <<"(", "(", "a", " ", "=", " ", "?", ")", " ", "A", "N", "D", " ", "(", "b", " ", "!", "=", " ", "?", ")", ")", " ", "O", "R", " ", "(", "c", " ", "I", "N", " ", "(", "?", ",", " ", "?", ",", " ", "?", ",", " ", "?", ")", ")">>
              /\ last.sqlValues = <<Num(1), Num(1), Num(6), Num(7), Num(8), Num(9)>>

\* the documented filter with a group has been compiled
C11_Witness ==
    /\ Called
    /\ last.method \in CompileOnly
    /\ last.ok
    /\ last.searchBefore.filter = GroupExample
    /\ last.where = <<"(", "(", "a", " ", "=", " ", "?", ")", " ", "A", "N", "D", " ", "(", "b", " ", "!", "=", " ", "?", ")", ")", " ", "O", "R", " ", "(", "c", " ", "I", "N", " ", "(", "?", ",", " ", "?", ",", " ", "?", ",", " ", "?", ")", ")">>

\* C12: a filter with no entries compiles to an empty fragment and an empty
\* value list whatever values the previous build left, and prepareSearch,
\* prepareCount and prepareDeleteSearch then emit a statement without WHERE
C12_EmptyFilterMatchesAll ==
    (Called /\ last.searchBefore.filter = Arr(<<>>)) =>
        /\ last.method \in CompileOnly => last.ok
        /\ last.ok =>
              /\ last.where = <<>>
              /\ last.sqlValues = <<>>
              /\ _sqlValues = <<>>
              /\ ~Contains(last.sql, <<"W", "H", "E", "R", "E">>)
        /\ (last.ok /\ last.method = "prepareCount") =>
              last.sql = <<"S", "E", "L", "E", "C", "T", " ", "C", "O", "U", "N", "T", "(", "*", ")", " ", "F", "R", "O", "M", " ">> \o TableName

\* an empty filter has been compiled by a DbQuery that held values
C12_Witness ==
    /\ Called
    /\ last.ok
    /\ last.searchBefore.filter = Arr(<<>>)
    /\ last.valuesBefore # <<>>
    /\ last.sqlValues = <<>>

\* C13: the column of a predicate is emitted trimmed and in lower case,
\* [' Name ','=',1] gives "(name = ?)", and a column that is empty or no
\* string makes the build fail
C13_ColumnNormalized ==
    (/\ Called
     /\ last.method \in CompileOnly
     /\ IsCanonical(last.searchBefore.filter)
     /\ Len(last.searchBefore.filter.v) = 1
     /\ Len(last.searchBefore.filter.v[1].v) >= 3) =>
        /\ (/\ ~isSqlClause(last.searchBefore.filter.v[1].v[1])
            /\ \/ ~isString(last.searchBefore.filter.v[1].v[1])
               \/ last.searchBefore.filter.v[1].v[1].v = <<>>) => ~last.ok
        /\ (/\ last.ok
            /\ IsPredicate(last.searchBefore.filter.v[1])
            /\ ~IsNullTest(last.searchBefore.filter.v[1])) =>
               StartsWith(last.where,
                          <<"(">> \o toLowerCase(trim(last.searchBefore.filter.v[1].v[1].v))
                              \o <<" ">>)
        /\ last.searchBefore.filter = Arr(<<P(<<" ", "N", "a", "m", "e", " ">>, <<"=">>, Num(1))>>) =>
               (last.ok /\ last.where = <<"(", "n", "a", "m", "e", " ", "=", " ", "?", ")">>)

\* the entry is [column, 'ISNULL' or 'NOT ISNULL', ...]
IsNullTestEntry(e) ==
    /\ isArray(e)
    /\ Len(e.v) >= 2
    /\ isString(e.v[1])
    /\ e.v[1].v \notin {<<"(">>, <<")">>, <<>>}
    /\ isString(e.v[2])
    /\ OperatorToken(e) \in {<<"I", "S", "N", "U", "L", "L">>, <<"N", "O", "T", " ", "I", "S", "N", "U", "L", "L">>}

\* the entries before the last one
Front(entries) == SubSeq(entries, 1, Len(entries) - 1)

\* the fragment of the entries before the last one, compiled with the
\* default logic operator of the search object s
FrontWhere(entries, s) ==
    _buildSqlFromFilterArray(Search(Arr(Front(entries)), s.operator, Undef, Undef, Undef)).ret

\* the last entry of the filter is a null test that does not open a group
\* and whose own logic operator, if given, is known
NullTestLast(filter) ==
    /\ IsCanonical(filter)
    /\ Len(filter.v) >= 2
    /\ IsNullTestEntry(filter.v[Len(filter.v)])
    /\ ~FreshGroup(filter.v, Len(filter.v))
    /\ HasOwnLogic(filter.v[Len(filter.v)]) =>
          toUpperCase(filter.v[Len(filter.v)].v[4].v) \in DOMAIN SQL_OPERATORS_LOGIC

\* C14: an ISNULL or NOT ISNULL predicate that is not the first entry of
\* its group follows the text before it after " X ", X being its own logic
\* operator if given and the default logic operator otherwise
C14_NullTestJoinedByItsConnective ==
    (/\ Called
     /\ last.method \in CompileOnly
     /\ last.ok
     /\ NullTestLast(last.searchBefore.filter)
     /\ ~UnknownOperator(last.searchBefore)) =>
        last.where =
            FrontWhere(last.searchBefore.filter.v, last.searchBefore)
                \o <<" ">>
                \o ExpectedLogic(last.searchBefore.filter.v[Len(last.searchBefore.filter.v)],
                                 last.searchBefore)
                \o <<" ">>
                \o Alone(last.searchBefore.filter.v[Len(last.searchBefore.filter.v)]).ret

\* the text s ends with the text p
EndsWith(s, p) == Len(s) >= Len(p) /\ SubSeq(s, Len(s) - Len(p) + 1, Len(s)) = p

\* "(ISNULL(column))" or "(NOT ISNULL(column))" for a null test
NullTestText(e) == <<"(">> \o OperatorToken(e) \o <<"(">> \o e.v[1].v \o <<")", ")">>

\* the values of the entries before the last one
FrontValues(entries, s) ==
    _buildSqlFromFilterArray(
        Search(Arr(Front(entries)), s.operator, Undef, Undef, Undef)).sqlValues

\* C15: an ISNULL or NOT ISNULL predicate compiles to "(ISNULL(column))" or
\* "(NOT ISNULL(column))" without operator token after the column, without
\* placeholder and without value, also when the entry carries a value
C15_NullTestIsFunctionCall ==
    (/\ Called
     /\ last.method \in CompileOnly
     /\ IsCanonical(last.searchBefore.filter)
     /\ Len(last.searchBefore.filter.v) >= 1
     /\ IsNullTestEntry(last.searchBefore.filter.v[Len(last.searchBefore.filter.v)])) =>
        /\ Len(last.searchBefore.filter.v) = 1 =>
              /\ last.ok
              /\ last.where = NullTestText(last.searchBefore.filter.v[1])
              /\ CountChar(last.where, "?") = 0
        /\ last.ok =>
              /\ EndsWith(last.where,
                          NullTestText(
                              last.searchBefore.filter.v[Len(last.searchBefore.filter.v)]))
              /\ last.sqlValues =
                     FrontValues(last.searchBefore.filter.v, last.searchBefore)

\* a NOT ISNULL predicate that carries the value 5 has been compiled
C15_Witness ==
    /\ Called
    /\ last.ok
    /\ last.searchBefore.filter = Arr(<<P(<<"b">>, <<"n", "o", "t", " ", "i", "s", "n", "u", "l", "l">>, Num(5))>>)
    /\ last.where = <<"(", "N", "O", "T", " ", "I", "S", "N", "U", "L", "L", "(", "b", ")", ")">>
    /\ last.sqlValues = <<>>

\* C16: a predicate whose value is null has the keyword NULL as value
\* expression, without placeholder and without value; a predicate whose
\* value is a Boolean has one placeholder and the value 0 or 1
C16_NullInlineBooleanAsNumber ==
    (/\ Called
     /\ last.method \in CompileOnly
     /\ IsCanonical(last.searchBefore.filter)
     /\ Len(last.searchBefore.filter.v) = 1
     /\ IsPredicate(last.searchBefore.filter.v[1])
     /\ last.searchBefore.filter.v[1].v[2] = Str(<<"=">>)) =>
        /\ last.searchBefore.filter.v[1].v[3] = Null =>
              /\ last.ok
              /\ last.where = <<"(">> \o last.searchBefore.filter.v[1].v[1].v \o <<" ", "=", " ", "N", "U", "L", "L", ")">>
              /\ last.sqlValues = <<>>
        /\ last.searchBefore.filter.v[1].v[3].k = "bool" =>
              /\ last.ok
              /\ last.where = <<"(">> \o last.searchBefore.filter.v[1].v[1].v \o <<" ", "=", " ", "?", ")">>
              /\ last.sqlValues =
                     <<Num(IF last.searchBefore.filter.v[1].v[3].v THEN 1 ELSE 0)>>

\* the entry is a SqlClause, [SqlClause] or [SqlClause, logic operator]
IsBareClause(e) == isSqlClause(e) \/ IsClauseEntry(e)

\* the SqlClause of a bare clause entry
ClauseOf(e) == IF isSqlClause(e) THEN e ELSE e.v[1]

\* the connective the claim expects before a bare clause entry
ClauseLogic(e, s) ==
    IF isArray(e) /\ HasBracketLogic(e) THEN toUpperCase(e.v[2].v) ELSE ExpectedDefault(s)

\* "(" + text of the clause + ")"
ClauseText(e) == <<"(">> \o SqlClause_get(ClauseOf(e)) \o <<")">>

\* the entries before the last one compile
FrontOk(entries, s) ==
    _buildSqlFromFilterArray(Search(Arr(Front(entries)), s.operator, Undef, Undef, Undef)).ok

\* the last entry of the filter is a bare clause entry that follows one or
\* more array entries, the nearest of them no opening bracket
ClauseLast(filter) ==
    /\ isArray(filter)
    /\ Len(filter.v) >= 2
    /\ IsCanonical(Arr(Front(filter.v)))
    /\ Len(filter.v[Len(filter.v) - 1].v) >= 1
    /\ ~FreshGroup(filter.v, Len(filter.v))
    /\ IsBareClause(filter.v[Len(filter.v)])

\* C17: a bare SqlClause entry, the clause itself or [clause, connective],
\* is emitted as "(" + text + ")", after " X " when it is not the first
\* entry of its group, X being its own logic operator if given and the
\* default otherwise, and its values are appended to the values
C17_BareClauseJoined ==
    (/\ Called
     /\ last.method \in CompileOnly
     /\ ~UnknownOperator(last.searchBefore)) =>
        /\ (/\ isArray(last.searchBefore.filter)
            /\ Len(last.searchBefore.filter.v) = 1
            /\ IsBareClause(last.searchBefore.filter.v[1])) =>
               /\ last.ok
               /\ last.where = ClauseText(last.searchBefore.filter.v[1])
               /\ last.sqlValues = ClauseOf(last.searchBefore.filter.v[1]).v.values
        /\ (/\ ClauseLast(last.searchBefore.filter)
            /\ FrontOk(last.searchBefore.filter.v, last.searchBefore)) =>
               /\ last.ok
               /\ last.where =
                      FrontWhere(last.searchBefore.filter.v, last.searchBefore)
                          \o <<" ">>
                          \o ClauseLogic(
                                 last.searchBefore.filter.v[Len(last.searchBefore.filter.v)],
                                 last.searchBefore)
                          \o <<" ">>
                          \o ClauseText(
                                 last.searchBefore.filter.v[Len(last.searchBefore.filter.v)])
               /\ last.sqlValues =
                      FrontValues(last.searchBefore.filter.v, last.searchBefore)
                          \o ClauseOf(last.searchBefore.filter.v[
                                 Len(last.searchBefore.filter.v)]).v.values

\* the entry is a predicate whose value is a SqlClause
HasClauseValue(e) == IsPredicate(e) /\ isSqlClause(e.v[3])

\* "(column OPERATOR text)" for a predicate whose value is a SqlClause
ClauseValueText(e) ==
    <<"(">> \o e.v[1].v \o <<" ">> \o OperatorToken(e) \o <<" ">>
        \o SqlClause_get(e.v[3]) \o <<")">>

\* the filter is an array of array entries, one of them a predicate with a
\* SqlClause as value
ClauseValued(filter) ==
    /\ IsCanonical(filter)
    /\ \A i \in 1..Len(filter.v) : Len(filter.v[i].v) >= 1
    /\ \E i \in 1..Len(filter.v) : HasClauseValue(filter.v[i])

\* a SqlClause as value is inlined behind the operator, and its values
\* stand between the values of the entries before and after it
ClauseValueInlined(operators) ==
    (/\ Called
     /\ last.method \in CompileOnly
     /\ ClauseValued(last.searchBefore.filter)) =>
        /\ (/\ Len(last.searchBefore.filter.v) = 1
            /\ isString(last.searchBefore.filter.v[1].v[2])
            /\ OperatorToken(last.searchBefore.filter.v[1]) \in operators) =>
               /\ last.ok
               /\ last.where = ClauseValueText(last.searchBefore.filter.v[1])
               /\ last.sqlValues = last.searchBefore.filter.v[1].v[3].v.values
        /\ last.ok => last.sqlValues = JoinedValues(last.searchBefore.filter.v, 1)

\* C18 as stated: a SqlClause as value of a predicate is accepted with
\* every operator of the catalogs, its text is inlined without placeholder
\* and its values are appended in entry order
C18_ClauseValueAnyOperator ==
    ClauseValueInlined(DOMAIN SQL_OPERATORS \cup DOMAIN SQL_OPERATORS_ARRAY)

\* C18, amended: a SqlClause as value of a predicate is accepted with every
\* operator of the catalogs but ISNULL and NOT ISNULL, its text is inlined
\* without placeholder and its values are appended in entry order
C18_ClauseValueInlinedButNullTest ==
    ClauseValueInlined((DOMAIN SQL_OPERATORS \cup DOMAIN SQL_OPERATORS_ARRAY)
                           \ {<<"I", "S", "N", "U", "L", "L">>, <<"N", "O", "T", " ", "I", "S", "N", "U", "L", "L">>})

\* a predicate with a SqlClause as value has been compiled between two
\* predicates with numbers as values
C18_Witness ==
    /\ Called
    /\ last.ok
    /\ last.searchBefore.filter =
           Arr(<<P(<<"a">>, <<"=">>, Num(1)), P(<<"z">>, <<"=">>, ExampleClause),
                 P(<<"b">>, <<"!", "=">>, Num(1))>>)
    /\ last.sqlValues = <<Num(1), Num(5), Num(6), Num(1)>>

\* the entry is a predicate with an array as value whose operator is not
\* among the operators arrayLike
ArrayForScalar(e, arrayLike) ==
    /\ IsPredicate(e)
    /\ isArray(e.v[3])
    /\ isString(e.v[2]) => OperatorToken(e) \notin arrayLike

\* a predicate with an array value and an operator outside arrayLike makes
\* the build fail, and no element of the array is among the values
ArrayNeedsOperator(arrayLike) ==
    (/\ Called
     /\ last.method \in CompileOnly
     /\ IsCanonical(last.searchBefore.filter)
     /\ Len(last.searchBefore.filter.v) >= 1
     /\ \A i \in 1..Len(last.searchBefore.filter.v) :
           Len(last.searchBefore.filter.v[i].v) >= 1) =>
        /\ (\E i \in 1..Len(last.searchBefore.filter.v) :
               ArrayForScalar(last.searchBefore.filter.v[i], arrayLike)) => ~last.ok
        /\ (/\ ArrayForScalar(last.searchBefore.filter.v[Len(last.searchBefore.filter.v)],
                               arrayLike)
            /\ FrontOk(last.searchBefore.filter.v, last.searchBefore)) =>
               /\ last.where = <<>>
               /\ last.sqlValues =
                      FrontValues(last.searchBefore.filter.v, last.searchBefore)

\* C19 as stated: an array value with an operator other than BETWEEN,
\* NOT BETWEEN, IN, NOT IN makes the build fail and none of the elements
\* of the array is appended to the values
C19_ArrayNeedsArrayOperator ==
    ArrayNeedsOperator(DOMAIN SQL_OPERATORS_ARRAY)

\* C19, amended: an array value with an operator other than BETWEEN,
\* NOT BETWEEN, IN, NOT IN, ISNULL, NOT ISNULL makes the build fail and
\* none of the elements of the array is appended to the values
C19_ArrayNeedsArrayOperatorButNullTest ==
    ArrayNeedsOperator(DOMAIN SQL_OPERATORS_ARRAY \cup {<<"I", "S", "N", "U", "L", "L">>, <<"N", "O", "T", " ", "I", "S", "N", "U", "L", "L">>})

\* the build of a = 1 followed by c = [1, 2] has failed with the value of
\* the first predicate alone
C19_Witness ==
    /\ Called
    /\ ~last.ok
    /\ last.searchBefore.filter =
           Arr(<<P(<<"a">>, <<"=">>, Num(1)), P(<<"c">>, <<"=">>, Arr(<<Num(1), Num(2)>>))>>)
    /\ last.sqlValues = <<Num(1)>>

\* the outcome of the recorded call on a DbQuery that never built anything
OnFreshQuery(call) ==
    IF call.method = "prepareSearch" THEN prepareSearch(<<>>, <<>>, call.searchBefore)
    ELSE IF call.method = "prepareCount" THEN prepareCount(<<>>, <<>>, call.searchBefore)
    ELSE prepareDeleteSearch(<<>>, <<>>, call.searchBefore)

\* getSql() and getValues() are the statement and the values out
HoldsOnly(out) == out.ok /\ _sql = out.sql /\ _sqlValues = out.sqlValues

\* C20: after successful prepare* calls on one DbQuery getSql() is the
\* statement of the latest call and getValues() the values of that call
\* alone, the same a DbQuery without earlier builds holds after the call
C20_OnlyLatestBuildKept ==
    (Called /\ last.ok /\ ~fresh) =>
        /\ _sql = last.sql
        /\ _sqlValues = last.sqlValues
        /\ last.valuesBefore # <<>> => HoldsOnly(OnFreshQuery(last))

\* a second successful call has followed a call that left values
C20_Witness ==
    /\ calls = 2
    /\ first.ok
    /\ last.ok
    /\ first.sqlValues # <<>>
    /\ last.valuesBefore = first.sqlValues
    /\ last.method # first.method
    /\ ~fresh
    /\ Len(_sqlValues) = Len(first.sqlValues)

\* the element of an order array is [column] or [column, direction] with
\* a column name and a direction that is a string or omitted
IsOrderPair(o) ==
    /\ isArray(o)
    /\ Len(o.v) \in {1, 2}
    /\ isString(o.v[1])
    /\ Len(o.v) = 2 => (isString(o.v[2]) \/ o.v[2] = Undef)

\* the direction the claim expects for the pair
ExpectedDirection(o) ==
    IF Len(o.v) = 2 /\ isString(o.v[2]) /\ toUpperCase(o.v[2].v) \in {<<"A", "S", "C">>, <<"D", "E", "S", "C">>}
    THEN toUpperCase(o.v[2].v)
    ELSE <<"A", "S", "C">>

\* the term the claim expects for an element of an order array
ExpectedTerm(o) ==
    IF isString(o) THEN o.v ELSE o.v[1].v \o <<" ">> \o ExpectedDirection(o)

\* the ORDER BY clause the claim expects for an order array
ExpectedOrderBy(order) ==
    <<" ", "O", "R", "D", "E", "R", " ", "B", "Y", " ">>
        \o JoinStrings([i \in 1..Len(order.v) |-> ExpectedTerm(order.v[i])], <<",", " ">>)

\* the order is a non-empty array of column names and pairs
OrderOfPairs(order) ==
    /\ isArray(order)
    /\ Len(order.v) > 0
    /\ \A i \in 1..Len(order.v) : isString(order.v[i]) \/ IsOrderPair(order.v[i])
    /\ \E i \in 1..Len(order.v) : IsOrderPair(order.v[i])

\* C21: a [column, direction] pair of an order array is emitted as
\* "column ASC" when its direction is missing or is neither ASC nor DESC
\* in any case, and as "column ASC" or "column DESC" in upper case
\* otherwise, so no other direction appears in the ORDER BY clause
C21_DirectionAscOrDesc ==
    (/\ Called
     /\ last.method = "prepareSearch"
     /\ last.ok
     /\ OrderOfPairs(last.searchBefore.order)) =>
        Contains(last.sql, ExpectedOrderBy(last.searchBefore.order))

\* the text of a clause after the space the claim puts before it
Spaced(part) == IF part = <<>> THEN <<>> ELSE <<" ">> \o part

\* the text s without the space it starts with, if it starts with one
Unspaced(s) == IF Len(s) > 0 /\ s[1] = " " THEN Tail(s) ELSE s

\* " WHERE fragment" for the fragment of the recorded call, or nothing
ExpectedWhere(call) == Spaced(IF call.where = <<>> THEN <<>> ELSE <<"W", "H", "E", "R", "E", " ">> \o call.where)

\* " ORDER BY terms" for the search object, or nothing
ExpectedOrder(s) ==
    Spaced(IF Truthy(s.order) THEN Unspaced(_buildSqlOrderBy(s.order).ret) ELSE <<>>)

\* " LIMIT limit" for the search object, or nothing
ExpectedLimit(s) == Spaced(Unspaced(_buildSqlLimit(s.limit)))

\* the columns prepareSearch selects for the search object
ExpectedColumns(s) ==
    _buildSqlColumns(_searchPrepareReturnColumns(
                         IF Truthy(s.columns) THEN s.columns ELSE Null).ret)

\* C22: the statement is the clauses in fixed order, each after a space:
\* prepareSearch gives SELECT cols FROM table, WHERE, ORDER BY and LIMIT,
\* prepareDeleteSearch gives DELETE FROM table, WHERE and LIMIT, and a
\* limit n > 0 gives a statement that ends with " LIMIT n"
C22_ClausesInOrderAfterSpace ==
    (Called /\ last.ok) =>
        /\ last.method = "prepareSearch" =>
              last.sql = <<"S", "E", "L", "E", "C", "T", " ">> \o ExpectedColumns(last.searchBefore)
                             \o <<" ", "F", "R", "O", "M", " ">> \o TableName
                             \o ExpectedWhere(last)
                             \o ExpectedOrder(last.searchBefore)
                             \o ExpectedLimit(last.searchBefore)
        /\ last.method = "prepareDeleteSearch" =>
              last.sql = <<"D", "E", "L", "E", "T", "E", " ", "F", "R", "O", "M", " ">> \o TableName
                             \o ExpectedWhere(last)
                             \o ExpectedLimit(last.searchBefore)
        /\ (/\ last.method \in {"prepareSearch", "prepareDeleteSearch"}
            /\ last.searchBefore.limit.k = "num"
            /\ last.searchBefore.limit.v > 0) =>
               EndsWith(last.sql, <<" ", "L", "I", "M", "I", "T", " ">> \o NatToString(last.searchBefore.limit.v))

\* the limit is a number, an array of two numbers, or falsy
LimitShape(l) ==
    \/ l.k = "num"
    \/ isArray(l) /\ Len(l.v) = 2 /\ l.v[1].k = "num" /\ l.v[2].k = "num"
    \/ ~Truthy(l)

\* the text the claim expects _buildSqlLimit to return for the limit
ExpectedLimitText(l) ==
    IF l.k = "num" /\ l.v # 0 THEN <<"L", "I", "M", "I", "T", " ">> \o NumberToString(l.v)
    ELSE IF isArray(l) /\ l.v[2].v > 0
        THEN <<"L", "I", "M", "I", "T", " ">> \o NumberToString(l.v[1].v) \o <<",", " ">> \o NumberToString(l.v[2].v)
    ELSE <<>>

\* the statement of the recorded call up to the place of the limit
StatementBeforeLimit(call) ==
    IF call.method = "prepareSearch"
    THEN <<"S", "E", "L", "E", "C", "T", " ">> \o ExpectedColumns(call.searchBefore) \o <<" ", "F", "R", "O", "M", " ">> \o TableName
             \o ExpectedWhere(call)
             \o (IF Truthy(call.searchBefore.order)
                 THEN _buildSqlOrderBy(call.searchBefore.order).ret ELSE <<>>)
    ELSE <<"D", "E", "L", "E", "T", "E", " ", "F", "R", "O", "M", " ">> \o TableName \o ExpectedWhere(call)

NamesUnknownColumn(columns) ==
    /\ isArray(columns)
    /\ \E i \in 1..Len(columns.v) :
          /\ isString(columns.v[i])
          /\ \A j \in 1..Len(getColumns(TableName)) : getColumns(TableName)[j] # columns.v[i]

\* the columns are a list of columns of the table and SqlClause objects,
\* with one SqlClause at least
ClauseColumns(columns) ==
    /\ isArray(columns)
    /\ \E i \in 1..Len(columns.v) : isSqlClause(columns.v[i])
    /\ \A i \in 1..Len(columns.v) :
          \/ isSqlClause(columns.v[i])
          \/ \E j \in 1..Len(getColumns(TableName)) : getColumns(TableName)[j] = columns.v[i]

\* the text of a column of the projection
ColumnText(column) == IF isSqlClause(column) THEN column.v.text ELSE column.v

\* the projection that lists the entries of the list in their order
ProjectionOf(columnList) ==
    JoinStrings([i \in 1..Len(columnList) |-> ColumnText(columnList[i])], <<",", " ">>)

\* C24: prepareSearch with a columns list that names a column the table does
\* not have fails before the filter is compiled, so that the sql and the
\* values of the DbQuery (and the caller's filter) are as before the call;
\* SqlClause entries of the columns list are inlined as they are and make
\* no call fail
C24_UnknownColumnFailsFirst ==
    (Called /\ ~fresh /\ last.method = "prepareSearch") =>
        /\ NamesUnknownColumn(last.searchBefore.columns) =>
              /\ ~last.ok
              /\ _sql = last.sqlBefore
              /\ _sqlValues = last.valuesBefore
              /\ search[1].filter = last.searchBefore.filter
        /\ ClauseColumns(last.searchBefore.columns) =>
              /\ last.ok = _buildSqlFromFilterArray(last.searchBefore).ok
              /\ last.ok =>
                    StartsWith(last.sql, <<"S", "E", "L", "E", "C", "T", " ">> \o ProjectionOf(last.searchBefore.columns.v)
                                             \o <<" ", "F", "R", "O", "M", " ">>)

\* a prepareSearch that names an unknown column has failed on a DbQuery that
\* held values of an earlier build
C24_Witness ==
    /\ Called
    /\ ~fresh
    /\ last.method = "prepareSearch"
    /\ NamesUnknownColumn(last.searchBefore.columns)
    /\ last.searchBefore.filter.v # <<>>
    /\ last.valuesBefore # <<>>
    /\ ~last.ok
    /\ _sqlValues = last.valuesBefore

\* the columns of the search object are absent, null or an empty list
NoColumns(columns) ==
    \/ columns.k \in {"undef", "null"}
    \/ isArray(columns) /\ columns.v = <<>>

\* the columns of the search object are a list with entries
ColumnsGiven(columns) == isArray(columns) /\ columns.v # <<>>

\* C25: without columns (absent, null or an empty list) prepareSearch
\* selects every column getColumns returns, in that order, joined by ", ";
\* with columns it selects the requested entries in the requested order
C25_ProjectionAllOrRequested ==
    (Called /\ last.ok /\ last.method = "prepareSearch") =>
        /\ NoColumns(last.searchBefore.columns) =>
              StartsWith(last.sql, <<"S", "E", "L", "E", "C", "T", " ">> \o ProjectionOf(getColumns(TableName))
                                       \o <<" ", "F", "R", "O", "M", " ">> \o TableName)
        /\ ColumnsGiven(last.searchBefore.columns) =>
              StartsWith(last.sql, <<"S", "E", "L", "E", "C", "T", " ">> \o ProjectionOf(last.searchBefore.columns.v)
                                       \o <<" ", "F", "R", "O", "M", " ">> \o TableName)

\* a prepareSearch without columns has selected all columns of the table
C25_Witness ==
    /\ Called
    /\ last.ok
    /\ last.method = "prepareSearch"
    /\ last.searchBefore.columns = Arr(<<>>)
    /\ StartsWith(last.sql, <<"S", "E", "L", "E", "C", "T", " ", "i", "d", ",", " ", "a", ",", " ", "b", " ", "F", "R", "O", "M", " ", "t">>)

\* clause.get() and clause.hasValues() of the clause the caller holds
ClauseGet == clause._sqlClause
ClauseHasValues == Len(clause._sqlValues) > 0

\* set has been called on the clause the caller holds
SetCalled == clause.setArg # Undef \/ clause.setThrew

\* C26: the construction of a SqlClause fails whenever the text argument is
\* no string (undefined, null, 0 and false included); after a successful
\* construction get() returns the given text as it is, and hasValues() is
\* true exactly when the value list is not empty
C26_ConstructionNeedsString ==
    clause.made =>
        /\ ~isString(clause.sqlClause) => clause.threw
        /\ (~clause.threw /\ isString(clause.sqlClause) /\ ~SetCalled) =>
              ClauseGet = clause.sqlClause.v
        /\ ~clause.threw =>
              ClauseHasValues <=> (isArray(clause.sqlValues) /\ clause.sqlValues.v # <<>>)

\* the places of the log where the updater did e
Places(e) == {i \in 1..Len(log) : log[i].e = e}

\* C27: once execute() has started a run, addInitFunction, addUpdateFunction
\* and addReadyFunction throw (and register nothing), also while init or
\* update functions are still being executed
C27_AddsThrowOnceStarted ==
    (caller.method \in AddMethods /\ Places("started") # {}) => caller.result = "threw"

\* C28: an execute() after an earlier execute(), with no reExecute() between
\* them, starts no second run
C28_SecondExecuteStartsNoRun ==
    \A i, j \in Places("started") :
        i < j => \E k \in Places("reExecute") : i < k /\ k < j

\* the places of the log where a function of one of the kinds was run
RunPlaces(kinds) == {i \in Places("run") : log[i].func.kind \in kinds}

\* the place after the part of the log that belongs to the version query
\* found at place f: the place of the next version query found, or the end
EndOfRun(f) ==
    IF \E g \in Places("found") : f < g
    THEN CHOOSE g \in Places("found") : f < g /\ \A h \in Places("found") : f < h => g <= h
    ELSE Len(log) + 1

\* the places where the run of the version query found at f ran update functions
UpdatesOf(f) == {i \in RunPlaces({"update"}) : f < i /\ i < EndOfRun(f)}

\* the run of the version query found at f has run all its functions
Completed(f) ==
    \E r \in Places("trigger") : log[r].name = "ready" /\ f < r /\ r < EndOfRun(f)

\* C29: an update run on a database with the stored version v > 0 executes
\* exactly the registered update functions with a version above v, in
\* ascending order of version, each in a transaction of its own; a function
\* starts only after the transaction of the one before it succeeded, and a
\* version is recorded only for a function whose transaction succeeded
C29_UpdatesAscendingEachInTransaction ==
    \A f \in Places("found") :
        log[f].value > 0 =>
            /\ \A i \in UpdatesOf(f) :
                  /\ log[i].func.version > log[f].value
                  /\ \E t \in Places("transaction") :
                        /\ f < t /\ t < i
                        /\ log[t].func = log[i].func
                        /\ \A k \in UpdatesOf(f) : ~(t < k /\ k < i)
            /\ \A i, j \in UpdatesOf(f) :
                  i < j =>
                     /\ log[i].func.version < log[j].func.version
                     /\ \E k \in Places("success") : i < k /\ k < j /\ log[k].func = log[i].func
            /\ Completed(f) =>
                  {log[i].func : i \in UpdatesOf(f)} =
                      {updater._updateFuncs[n] : n \in {m \in 1..log[f].max :
                           updater._updateFuncs[m].version > log[f].value}}
            /\ \A p \in Places("version") :
                  (f < p /\ p < EndOfRun(f)) =>
                     /\ log[p - 1].e = "success"
                     /\ log[p - 1].func.version = log[p].value

\* the places of the log before the first call of reExecute
FirstRun ==
    {i \in 1..Len(log) : \A k \in Places("reExecute") : i < k}

\* the places of the first run where the event was triggered
Triggers(name) == {i \in Places("trigger") \cap FirstRun : log[i].name = name}

\* the function run at place i has succeeded before place j
SucceededBetween(i, j) ==
    \E k \in Places("success") :
        /\ i < k /\ k < j
        /\ log[k].func.kind = log[i].func.kind
        /\ log[k].func.id = log[i].func.id

\* C30: in a first execute() run the 'execute' event comes before any
\* function; status READY and the 'ready' event come only after every
\* init or update function of the run has succeeded; the ready functions run
\* after that, one after another in the order of their registration; status
\* DONE and the 'done' event come only after every ready function has
\* succeeded; each of the three events is triggered at most once
C30_LifecycleOrdered ==
    /\ \A i \in Places("run") \cap FirstRun : \E e \in Triggers("execute") : e < i
    /\ \A name \in {"execute", "ready", "done"} : Cardinality(Triggers(name)) <= 1
    /\ \A r \in Triggers("ready") :
          \A i \in RunPlaces({"init", "version", "update"}) \cap FirstRun :
              i < r /\ SucceededBetween(i, r)
    /\ \A i \in RunPlaces({"ready"}) \cap FirstRun :
          /\ \E r \in Triggers("ready") : r < i
          /\ log[i].func.id = Cardinality({j \in RunPlaces({"ready"}) : j <= i})
          /\ \A j \in RunPlaces({"ready"}) : j < i => SucceededBetween(j, i)
    /\ \A d \in Triggers("done") :
          /\ \E r \in Triggers("ready") : r < d
          /\ \A i \in RunPlaces({"ready"}) \cap FirstRun : i < d /\ SucceededBetween(i, d)
    /\ (Places("reExecute") = {} /\ updater._status >= STATUS_READY) => Triggers("ready") # {}
    /\ (Places("reExecute") = {} /\ updater._status = STATUS_DONE) => Triggers("done") # {}

\* the number of functions registered on the updater u
Registered(u) == Len(u._initFuncs) + Len(u._updateFuncs) + Len(u._readyFuncs)

\* the caller calls execute() on an updater whose status is STATUS_INIT
ExecuteCalled ==
    /\ caller'.method = "execute"
    /\ caller'.executes = caller.executes + 1
    /\ updater._status = STATUS_INIT

\* C31: execute() on an updater with no init, no update and no ready
\* function returns without an error, opens no transaction and triggers no
\* event; with a function of any of the three kinds it starts a run
C31_ExecuteNeedsRegisteredFunction ==
    [][ExecuteCalled =>
          IF Registered(updater) = 0
          THEN /\ caller'.result # "threw"
               /\ connection' = connection
               /\ log' = log
          ELSE /\ caller'.result = "started"
               /\ Len(connection'.queue) = Len(connection.queue) + 1]_vars

\* the versions of the update functions fs are strictly increasing
Increasing(fs) == \A i, j \in 1..Len(fs) : i < j => fs[i].version < fs[j].version

\* the highest version of the update functions fs, 1 when there is none
HighestVersion(fs) ==
    IF fs = <<>> THEN 1
    ELSE CHOOSE v \in {fs[i].version : i \in 1..Len(fs)} :
             \A i \in 1..Len(fs) : fs[i].version <= v

\* the version an update function registered with vers is expected to get
ExpectedVersion(fs, vers) == IF vers > 0 THEN vers ELSE HighestVersion(fs) + 1

\* the outcome of addUpdateFunction(vers, func) on the update functions fs:
\* a throw that leaves them as they are when the version is not above the
\* last one, and the function registered last with its version otherwise
AddedAsExpected(fs, vers, w) ==
    IF fs # <<>> /\ ExpectedVersion(fs, vers) <= fs[Len(fs)].version
    THEN w.r = "threw" /\ w.u._updateFuncs = fs
    ELSE /\ w.r = "registered"
         /\ Len(w.u._updateFuncs) = Len(fs) + 1
         /\ SubSeq(w.u._updateFuncs, 1, Len(fs)) = fs
         /\ w.u._updateFuncs[Len(fs) + 1].version = ExpectedVersion(fs, vers)

\* C32: the versions of the registered update functions are strictly
\* increasing in the order of registration; addUpdateFunction with a version
\* (given or assigned) that is not above the last registered one throws and
\* leaves the list as it is, and a version that is not greater than 0 is
\* replaced by the highest registered version plus one
C32_UpdateVersionsIncreasing ==
    /\ Increasing(updater._updateFuncs)
    /\ updater._status = STATUS_INIT =>
          \A vers \in Versions :
              AddedAsExpected(updater._updateFuncs, vers, addUpdateFunction(Now, vers, TRUE))

\* addUpdateFunction has thrown for a version that is not above the last
\* one, after a version was assigned to an update function
C32_Witness ==
    /\ caller.method = "addUpdateFunction"
    /\ caller.result = "threw"
    /\ updater._status = STATUS_INIT
    /\ Len(updater._updateFuncs) = 2
    /\ updater._updateFuncs[2].version = updater._updateFuncs[1].version + 1

\* the updater has the default options for a run started by reExecute
DefaultOptions ==
    /\ ~updater._options.triggerEventsOnReExecute
    /\ ~updater._options.recallReadyFunctionsOnReExecute

\* the places of the log after the call of reExecute at place k and before
\* the next call of reExecute
ReExecuted(k) ==
    {i \in 1..Len(log) : k < i /\ \A n \in Places("reExecute") : k < n => i < n}

\* the places where the callback given to the reExecute of place k was called
CallbacksOf(k) == Places("reExecFunction") \cap ReExecuted(k)

\* nothing is left to do: no transaction is queued, and none has failed
\* since the call of reExecute at place k
Settled(k) ==
    /\ connection.queue = <<>>
    /\ \A i \in Places("error") : i < k

\* C33: reExecute() throws unless an earlier run has reached DONE; with the
\* default options the run it starts calls no ready function, triggers no
\* event, ends in status DONE and calls the callback given to reExecute
\* once, after DONE
C33_ReExecuteQuietWithDefaults ==
    /\ \A k \in Places("reExecute") :
          \E d \in Places("trigger") : log[d].name = "done" /\ d < k
    /\ DefaultOptions =>
          /\ \A i \in Places("run") : log[i].func.kind = "ready" => i \in FirstRun
          /\ Places("trigger") \subseteq FirstRun
          /\ \A k \in Places("reExecute") :
                /\ Cardinality(CallbacksOf(k)) <= log[k].value
                /\ Settled(k) =>
                      /\ updater._status = STATUS_DONE
                      /\ Cardinality(CallbacksOf(k)) = log[k].value

\* the places of the log where a 'progress' event was triggered
Progress == {i \in Places("trigger") : log[i].name = "progress"}

\* C34: every 'progress' event carries 1 <= value <= max; value grows by
\* one with every function executed, also in a run started by reExecute()
\* with triggerEventsOnReExecute
C34_ProgressWithinMax ==
    \A p \in Progress :
        /\ 1 <= log[p].value
        /\ log[p].value <= log[p].max
        /\ log[p].value = Cardinality({q \in Progress : q <= p})

\* the entry is a NOT BETWEEN predicate with a string or an array as value
IsNotBetween(e) ==
    /\ IsPredicate(e)
    /\ isString(e.v[2])
    /\ OperatorToken(e) = <<"N", "O", "T", " ", "B", "E", "T", "W", "E", "E", "N">>
    /\ e.v[3].k \in {"str", "arr"}

\* C35: a NOT BETWEEN predicate is compiled like BETWEEN: a value that
\* resolves to other than two elements makes the build fail; one that
\* resolves to two elements pushes them in order and gives
\* "(col NOT BETWEEN ? AND ?)"
C35_NotBetweenTakesTwo ==
    (Called /\ last.method \in CompileOnly /\ IsCanonical(last.searchBefore.filter)) =>
        /\ (\E i \in 1..Len(last.searchBefore.filter.v) :
               /\ IsNotBetween(last.searchBefore.filter.v[i])
               /\ Len(Resolved(last.searchBefore.filter.v[i])) # 2) => ~last.ok
        /\ (/\ Len(last.searchBefore.filter.v) = 1
            /\ IsNotBetween(last.searchBefore.filter.v[1])
            /\ Len(Resolved(last.searchBefore.filter.v[1])) = 2) =>
               /\ last.ok
               /\ last.where = <<"(">> \o last.searchBefore.filter.v[1].v[1].v
                                  \o <<" ", "N", "O", "T", " ", "B", "E", "T", "W", "E", "E", "N", " ", "?", " ", "A", "N", "D", " ", "?", ")">>
               /\ last.sqlValues = Resolved(last.searchBefore.filter.v[1])

\* the places of the log where $db.executeSql was called
Executions == {i \in 1..Len(log) : log[i].e = "executeSql"}

\* the place of the latest call on the DbQuery before place i of the log
LatestCall(i) ==
    CHOOSE c \in 1..i : /\ log[c].e = "call"
                        /\ \A d \in (c + 1)..i : log[d].e # "call"

LatestFound(i) ==
    CHOOSE f \in Places("found") : f < i /\ \A g \in Places("found") : g < i => g <= f

\* C37: the functions a run executes before READY are init functions only
\* or update functions only: init functions exactly when the version query
\* of the run found no stored version greater than 0, update functions
\* exactly when it found one
C37_InitOrUpdateNeverMixed ==
    \A i \in RunPlaces({"init", "version", "update"}) :
        /\ \E f \in Places("found") : f < i
        /\ log[LatestFound(i)].value > 0 <=> log[i].func.kind = "update"

\* the places of the log after the failed transaction at place e and before
\* the next call of reExecute
AfterError(e) ==
    {i \in 1..Len(log) : e < i /\ \A k \in Places("reExecute") : e < k => i < k}

\* C38: when the transaction of a function fails the run stops: the error
\* goes to options.errorFunc when that is a function and is thrown
\* otherwise, no further function is executed, no version is recorded,
\* neither 'ready' nor 'done' is triggered and the status does not become
\* DONE
C38_FailedTransactionStopsRun ==
    \A e \in Places("error") :
        /\ e < Len(log)
        /\ log[e + 1].e = (IF updater._options.errorFunc THEN "errorFunc" ELSE "threw")
        /\ log[e + 1].func = log[e].func
        /\ \A i \in AfterError(e) :
              /\ log[i].e \notin {"run", "version", "success"}
              /\ log[i].e = "trigger" => log[i].name \notin {"ready", "done"}
        /\ (\A k \in Places("reExecute") : k < e) => updater._status # STATUS_DONE

\* the place of the first version query found
FirstFound == CHOOSE f \in Places("found") : \A g \in Places("found") : f <= g

\* the init or update functions the run of the version query found at f
\* selected: the update functions registered then with a version above the
\* one found, or the init functions registered then and the one that
\* inserts the version
Selected(f) ==
    IF log[f].value > 0
    THEN {updater._updateFuncs[n] : n \in {m \in 1..log[f].max :
              updater._updateFuncs[m].version > log[f].value}}
    ELSE {updater._initFuncs[n] : n \in {m \in 1..Len(updater._initFuncs) :
              /\ updater._initFuncs[m].kind = "init"
              /\ updater._initFuncs[m].id <= log[f].func.id}}
         \cup {Func("version", 0, 0)}

\* how often the function has been run
TimesRun(func) == Cardinality({i \in Places("run") : log[i].func = func})

\* execute() has started a run with an init or update function registered
\* and reExecute() has started none
RunStarted ==
    /\ Places("started") # {}
    /\ Places("reExecute") = {}
    /\ \E n \in 1..Len(updater._initFuncs) : updater._initFuncs[n].kind = "init"
       \/ updater._updateFuncs # <<>>

\* the run started by execute() is done: every function it selected and
\* every ready function has run once and the call stack is empty
RunDone ==
    /\ Places("reExecute") = {}
    /\ updater._status = STATUS_DONE
    /\ updater._runFuncs = <<>>
    /\ Places("found") # {}
    /\ \A func \in Selected(FirstFound) : TimesRun(func) = 1
    /\ \A n \in 1..Len(updater._readyFuncs) : TimesRun(updater._readyFuncs[n]) = 1

\* the run started by execute() has run no function twice
NeverTwice ==
    Places("reExecute") = {} =>
        \A i, j \in Places("run") : log[i].func = log[j].func => i = j

\* C39: if every transaction succeeds, a run started by execute() with at
\* least one init or update function registered eventually reaches status
\* DONE, having executed every selected init or update function and every
\* registered ready function exactly once, and leaving the call stack empty
C39_StartedRunCompletes ==
    /\ RunStarted ~> RunDone
    /\ []NeverTwice

\* the version queries that found no stored version and whose run has run
\* all its init functions
InitRuns == {f \in Places("found") : log[f].value = 0 /\ Completed(f)}

\* the places where the run of the version query found at f ran init
\* functions
InitsOf(f) == {i \in RunPlaces({"init", "version"}) : f < i /\ i < EndOfRun(f)}

\* the version queries found after the one at f, with the update functions
\* that were registered then
FollowingRuns(f) == {g \in Places("found") : f < g /\ log[g].max = log[f].max}

\* the init run of execute() on an empty version table has completed and
\* reExecute() has started no run
InitRunCompleted ==
    /\ Places("found") # {}
    /\ log[FirstFound].value = 0
    /\ Places("reExecute") = {}
    /\ updater._status >= STATUS_READY

\* C40: after an init run on a database without a stored version has
\* completed the stored version is the highest version registered with
\* addUpdateFunction (1 when none is registered) and the run has executed
\* no update function; a following run on the same database with the same
\* registrations selects update mode and executes no update function
C40_InitRunStoresHighestVersion ==
    /\ InitRunCompleted =>
          MaxVersion(connection.versions) =
              (IF updater._updateFuncs = <<>> THEN 1 ELSE HighestVersion(updater._updateFuncs))
    /\ \A f \in InitRuns :
          /\ UpdatesOf(f) = {}
          /\ \A g \in FollowingRuns(f) :
                /\ log[g].value > 0
                /\ InitsOf(g) = {}
                /\ UpdatesOf(g) = {}

=============================================================================
